---- MODULE Spec2Model ----
(***************************************************************************)
(* Model of the ITO event-analysis dashboard (src/app.py): the duration    *)
(* codec (parse_duration_to_seconds, format_seconds_to_duration,           *)
(* calculate_average_duration) and the aggregation done by                 *)
(* generate_report, perform_simple_ai_analysis and the analysis tab.       *)
(*                                                                         *)
(* A Python str is a sequence of one-character strings; a Python value is  *)
(* a record [t, s] with t the type tag and s the characters of a str.      *)
(* A call's outcome is a record [exc, val]: exc = "none" when the call     *)
(* returned val, otherwise the name of the exception that left the call.   *)
(***************************************************************************)
EXTENDS Integers, Sequences, FiniteSets, TLC

\* ------------------------------------------------------------------ bounds
MaxLen == 5
MaxDays == 2
MaxSeries == 3
MaxRows == 2
MaxClock == 1

\* ---------------------------------------------------------- Python values
PyStr(chars) == [t |-> "str", s |-> chars]
PyNaN == [t |-> "nan", s |-> <<>>]
PyNone == [t |-> "none", s |-> <<>>]

Returned(v) == [exc |-> "none", val |-> v]
Raised(e) == [exc |-> e, val |-> 0]
NotCalled == [exc |-> "not called", val |-> 0]

\* pd.notna(x): false for NaN and None
notna(v) == v.t \notin {"nan", "none"}

\* -------------------------------------------------------- str primitives
Whitespace == {" "}
Digits == <<"0", "1", "2", "3", "4", "5", "6", "7", "8", "9">>
DigitSet == {Digits[i] : i \in 1..10}
DigitVal(c) == (CHOOSE i \in 1..10 : Digits[i] = c) - 1

\* c in part
Contains(part, c) == \E i \in DOMAIN part : part[i] = c

\* part.replace(c, '')
Replace(part, c) == SelectSeq(part, LAMBDA x : x # c)

RECURSIVE lstrip(_)
lstrip(s) == IF s # <<>> /\ Head(s) \in Whitespace THEN lstrip(Tail(s)) ELSE s

RECURSIVE rstrip(_)
rstrip(s) ==
    IF s # <<>> /\ s[Len(s)] \in Whitespace
    THEN rstrip(SubSeq(s, 1, Len(s) - 1))
    ELSE s

\* str.strip()
strip(s) == rstrip(lstrip(s))

\* str.split(): the maximal runs of non-whitespace characters, in order
RECURSIVE split_from(_, _, _, _)
split_from(s, i, cur, acc) ==
    IF i > Len(s)
    THEN IF cur = <<>> THEN acc ELSE Append(acc, cur)
    ELSE IF s[i] \in Whitespace
         THEN split_from(s, i + 1, <<>>, IF cur = <<>> THEN acc ELSE Append(acc, cur))
         ELSE split_from(s, i + 1, Append(cur, s[i]), acc)

split(s) == split_from(s, 1, <<>>, <<>>)

RECURSIVE digits_value(_, _)
digits_value(s, acc) ==
    IF s = <<>> THEN acc
    ELSE digits_value(Tail(s), IF Head(s) = "_" THEN acc ELSE 10 * acc + DigitVal(Head(s)))

\* The digits of an int literal: decimal digits that single underscores may
\* separate.
IntDigits(body) ==
    /\ body # <<>>
    /\ \A i \in DOMAIN body : body[i] \in DigitSet \cup {"_"}
    /\ body[1] # "_" /\ body[Len(body)] # "_"
    /\ \A i \in 1..(Len(body) - 1) : ~(body[i] = "_" /\ body[i + 1] = "_")

int_unsigned(body, sign) ==
    IF IntDigits(body) THEN Returned(sign * digits_value(body, 0))
    ELSE Raised("ValueError")

int_stripped(t) ==
    IF t # <<>> /\ Head(t) = "-" THEN int_unsigned(Tail(t), -1)
    ELSE IF t # <<>> /\ Head(t) = "+" THEN int_unsigned(Tail(t), 1)
    ELSE int_unsigned(t, 1)

\* int(str): optional surrounding whitespace, optional sign, the digits;
\* anything else is a ValueError.
int(s) == int_stripped(strip(s))

\* str(int): the decimal digits, with a leading '-' for a negative number
RECURSIVE nat_str(_)
nat_str(n) ==
    IF n < 10 THEN <<Digits[n + 1]>>
    ELSE Append(nat_str(n \div 10), Digits[(n % 10) + 1])

int_str(n) == IF n < 0 THEN <<"-">> \o nat_str(0 - n) ELSE nat_str(n)

\* ------------------------------------------------------- numbers (floats)
\* A number is the exact quotient n/d with d > 0. The quotients the program
\* forms are small integers over small counts, far from the limits of
\* double precision, so the exact quotient decides every comparison and
\* truncation as the float does.
Num(k) == [n |-> k, d |-> 1]

\* int(x / k) for a number x and a positive integer k: truncation to zero
trunc_div(x, k) ==
    IF x.n >= 0 THEN x.n \div (x.d * k) ELSE 0 - ((0 - x.n) \div (x.d * k))

\* x % k for a number x and a positive integer k (sign of the divisor)
num_mod(x, k) == [n |-> x.n % (x.d * k), d |-> x.d]

num_lt(x, k) == x.n < k * x.d

\* ------------------------------------------------------ the duration codec
\* total_seconds += amount * k, unless int() raised
scaled(r, k) == IF r.exc # "none" THEN r ELSE Returned(r.val * k)

part_seconds_swapped(part) ==
    IF Contains(part, "d") THEN scaled(int(Replace(part, "d")), 86400)
    ELSE IF Contains(part, "h") THEN scaled(int(Replace(part, "h")), 60)
    ELSE IF Contains(part, "m") THEN scaled(int(Replace(part, "m")), 3600)
    ELSE IF Contains(part, "s") THEN scaled(int(Replace(part, "s")), 1)
    ELSE Returned(0)

\* One iteration of the loop of parse_duration_to_seconds: what a part adds.
part_seconds(part) ==
    IF Contains(part, "d") THEN scaled(int(Replace(part, "d")), 86400)
    ELSE IF Contains(part, "h") THEN scaled(int(Replace(part, "h")), 3600)
    ELSE IF Contains(part, "m") THEN scaled(int(Replace(part, "m")), 60)
    ELSE IF Contains(part, "s") THEN scaled(int(Replace(part, "s")), 1)
    ELSE Returned(0)

\* The for loop: parts are added in order, the first exception ends it.
RECURSIVE parse_parts(_, _, _)
parse_step(parts, i, total_seconds, r) ==
    IF r.exc # "none" THEN r
    ELSE parse_parts(parts, i + 1, total_seconds + r.val)

parse_parts(parts, i, total_seconds) ==
    IF i > Len(parts) THEN Returned(total_seconds)
    ELSE parse_step(parts, i, total_seconds, part_seconds(parts[i]))

\* The body of the try block: .strip() of a value that is not a str is an
\* AttributeError.
parse_duration_try(duration_str) ==
    IF duration_str.t # "str" THEN Raised("AttributeError")
    ELSE parse_parts(split(strip(duration_str.s)), 1, 0)

\* except: return 0
except_return_0(r) == IF r.exc # "none" THEN Returned(0) ELSE r

except_valueerror_return_0(r) == IF r.exc = "ValueError" THEN Returned(0) ELSE r

parse_duration_to_seconds_valueerror_only(duration_str) ==
    except_valueerror_return_0(parse_duration_try(duration_str))

\* try: ... except: return 0
parse_duration_to_seconds(duration_str) ==
    except_return_0(parse_duration_try(duration_str))

\* The localized unit words of the formatted text. A character outside ASCII
\* is written as its code point: U+CD08 (seconds), U+BD84 (minutes),
\* U+C2DC U+AC04 (hours), U+C77C (days); each is one character of the str.
Cho == <<"U+CD08">>
Bun == <<"U+BD84">>
Sigan == <<"U+C2DC", "U+AC04">>
Il == <<"U+C77C">>

format_seconds_to_duration_rounding(seconds) ==
    IF num_lt(seconds, 60) THEN
        int_str(trunc_div(seconds, 1)) \o Cho
    ELSE IF num_lt(seconds, 3600) THEN
        int_str(trunc_div([n |-> seconds.n + 30 * seconds.d, d |-> seconds.d], 60)) \o Bun
    ELSE IF num_lt(seconds, 86400) THEN
        int_str(trunc_div(seconds, 3600)) \o Sigan \o <<" ">>
            \o int_str(trunc_div(num_mod(seconds, 3600), 60)) \o Bun
    ELSE
        int_str(trunc_div(seconds, 86400)) \o Il \o <<" ">>
            \o int_str(trunc_div(num_mod(seconds, 86400), 3600)) \o Sigan

format_seconds_to_duration(seconds) ==
    IF num_lt(seconds, 60) THEN
        int_str(trunc_div(seconds, 1)) \o Cho
    ELSE IF num_lt(seconds, 3600) THEN
        int_str(trunc_div(seconds, 60)) \o Bun
    ELSE IF num_lt(seconds, 86400) THEN
        int_str(trunc_div(seconds, 3600)) \o Sigan \o <<" ">>
            \o int_str(trunc_div(num_mod(seconds, 3600), 60)) \o Bun
    ELSE
        int_str(trunc_div(seconds, 86400)) \o Il \o <<" ">>
            \o int_str(trunc_div(num_mod(seconds, 86400), 3600)) \o Sigan

NA == <<"N", "/", "A">>

\* The for loop of calculate_average_duration: <<total_seconds, count>>.
RECURSIVE average_loop_all(_, _, _, _)
average_all_step(duration_series, i, total_seconds, count, seconds) ==
    average_loop_all(duration_series, i + 1, total_seconds + seconds, count + 1)

average_loop_all(duration_series, i, total_seconds, count) ==
    IF i > Len(duration_series) THEN <<total_seconds, count>>
    ELSE IF notna(duration_series[i]) /\ duration_series[i] # PyStr(<<>>)
         THEN average_all_step(duration_series, i, total_seconds, count,
                               parse_duration_to_seconds(duration_series[i]).val)
         ELSE average_loop_all(duration_series, i + 1, total_seconds, count)

RECURSIVE average_loop(_, _, _, _)
average_step(duration_series, i, total_seconds, count, seconds) ==
    IF seconds > 0
    THEN average_loop(duration_series, i + 1, total_seconds + seconds, count + 1)
    ELSE average_loop(duration_series, i + 1, total_seconds, count)

average_loop(duration_series, i, total_seconds, count) ==
    IF i > Len(duration_series) THEN <<total_seconds, count>>
    ELSE IF notna(duration_series[i]) /\ duration_series[i] # PyStr(<<>>)
         THEN average_step(duration_series, i, total_seconds, count,
                           parse_duration_to_seconds(duration_series[i]).val)
         ELSE average_loop(duration_series, i + 1, total_seconds, count)

\* if count > 0: return format_seconds_to_duration(total_seconds / count)
average_result(acc) ==
    IF acc[2] > 0
    THEN format_seconds_to_duration([n |-> acc[1], d |-> acc[2]])
    ELSE NA

calculate_average_duration(duration_series) ==
    average_result(average_loop(duration_series, 1, 0, 0))

\* ------------------------------------------------------------ data frames
\* A DataFrame is [columns, rows]: the set of column names and the sequence
\* of rows, each row a function from the column names to Python values. A
\* cell that holds no value is NaN.
DataFrame(columns, rows) == [columns |-> columns, rows |-> rows]

\* pd.DataFrame()
EmptyFrame == DataFrame({}, <<>>)

\* len(df)
len(df) == Len(df.rows)

\* df.empty: no rows or no columns
empty(df) == df.rows = <<>> \/ df.columns = {}

\* A row of a frame seen in a wider frame: absent columns are NaN.
reindex(row, columns) ==
    [c \in columns |-> IF c \in DOMAIN row THEN row[c] ELSE PyNaN]

RECURSIVE all_columns(_)
all_columns(dfs) ==
    IF dfs = <<>> THEN {} ELSE dfs[1].columns \cup all_columns(Tail(dfs))

RECURSIVE all_rows(_, _)
all_rows(dfs, columns) ==
    IF dfs = <<>> THEN <<>>
    ELSE [i \in DOMAIN dfs[1].rows |-> reindex(dfs[1].rows[i], columns)]
         \o all_rows(Tail(dfs), columns)

\* pd.concat(dfs, ignore_index=True): the rows of the frames in order over
\* the union of their columns; no frame at all is a ValueError.
concat(dfs) ==
    IF dfs = <<>> THEN Raised("ValueError")
    ELSE Returned(DataFrame(all_columns(dfs), all_rows(dfs, all_columns(dfs))))

\* The cells of a column, row by row.
column(df, col) == [i \in DOMAIN df.rows |-> df.rows[i][col]]

\* ------------------------------------------------------------ timestamps
\* A Timestamp is [t |-> "ts", s |-> <<h>>], h the hours since 2024-01-01
\* 00:00; NaT is [t |-> "nat", s |-> <<>>].
Timestamp(h) == [t |-> "ts", s |-> <<h>>]
NaT == [t |-> "nat", s |-> <<>>]
hours(ts) == ts.s[1]

\* Timestamp.date(), as the days since 2024-01-01, and Timestamp.hour
date(ts) == hours(ts) \div 24
hour(ts) == hours(ts) % 24

two_digits(k) == <<Digits[(k \div 10) + 1], Digits[(k % 10) + 1]>>

\* The text "2024-01-DD HH:00:00"
stamp(day, hr) ==
    <<"2", "0", "2", "4", "-", "0", "1", "-">> \o two_digits(day) \o <<" ">>
        \o two_digits(hr) \o <<":", "0", "0", ":", "0", "0">>

\* The texts pd.to_datetime reads as a full hour of January 2024; of the
\* texts of this model every other one is no date at all.
is_stamp(chars) ==
    /\ Len(chars) = 19
    /\ SubSeq(chars, 1, 8) = <<"2", "0", "2", "4", "-", "0", "1", "-">>
    /\ \A i \in {9, 10, 12, 13} : chars[i] \in DigitSet
    /\ chars[11] = " "
    /\ SubSeq(chars, 14, 19) = <<":", "0", "0", ":", "0", "0">>
    /\ digits_value(SubSeq(chars, 9, 10), 0) \in 1..31
    /\ digits_value(SubSeq(chars, 12, 13), 0) \in 0..23

stamp_hours(chars) ==
    (digits_value(SubSeq(chars, 9, 10), 0) - 1) * 24
        + digits_value(SubSeq(chars, 12, 13), 0)

\* pd.to_datetime of one cell, errors='raise': a Timestamp stays, a missing
\* value is NaT, a text is parsed or raises ValueError.
to_datetime_cell(cell) ==
    IF cell.t \in {"ts", "nat"} THEN Returned(cell)
    ELSE IF cell.t \in {"nan", "none"} THEN Returned(NaT)
    ELSE IF is_stamp(cell.s) THEN Returned(Timestamp(stamp_hours(cell.s)))
    ELSE Raised("ValueError")

with_time(df, cells) ==
    DataFrame(df.columns,
              [i \in DOMAIN df.rows |->
                  [c \in DOMAIN df.rows[i] |->
                      IF c = "Time" THEN cells[i] ELSE df.rows[i][c]]])

\* df['Time'] = pd.to_datetime(df['Time'])
to_datetime(df) ==
    IF \E i \in DOMAIN df.rows : to_datetime_cell(df.rows[i]["Time"]).exc # "none"
    THEN Raised("ValueError")
    ELSE Returned(with_time(df, [i \in DOMAIN df.rows |->
                                    to_datetime_cell(df.rows[i]["Time"]).val]))

\* The frame with its Time column converted where pd.to_datetime succeeds.
converted(df) ==
    IF "Time" \in df.columns /\ to_datetime(df).exc = "none"
    THEN to_datetime(df).val
    ELSE df

\* a sorts before b: NaT sorts last
before(a, b) == a.t = "ts" /\ (b.t = "nat" \/ hours(a) < hours(b))

RECURSIVE insert_row(_, _)
insert_row(sorted, row) ==
    IF sorted = <<>> THEN <<row>>
    ELSE IF before(row["Time"], sorted[Len(sorted)]["Time"])
    THEN Append(insert_row(SubSeq(sorted, 1, Len(sorted) - 1), row),
                sorted[Len(sorted)])
    ELSE Append(sorted, row)

RECURSIVE sorted_rows(_)
sorted_rows(rows) ==
    IF rows = <<>> THEN <<>>
    ELSE insert_row(sorted_rows(SubSeq(rows, 1, Len(rows) - 1)), rows[Len(rows)])

\* df.sort_values('Time')
sort_values(df) == DataFrame(df.columns, sorted_rows(df.rows))

\* The timestamps of the Time column that are not NaT, row by row.
valid_times(df) ==
    SelectSeq(column(df, "Time"), LAMBDA cell : cell.t = "ts")

\* ---------------------------------------------------------- str.lower()
UpperLetters == <<"A", "B", "C", "D", "E", "F", "G", "H", "I", "J", "K", "L", "M", "N", "O", "P", "Q", "R", "S", "T", "U", "V", "W", "X", "Y", "Z">>
LowerLetters == <<"a", "b", "c", "d", "e", "f", "g", "h", "i", "j", "k", "l", "m", "n", "o", "p", "q", "r", "s", "t", "u", "v", "w", "x", "y", "z">>

lower_char(c) ==
    IF \E i \in 1..26 : UpperLetters[i] = c
    THEN LowerLetters[CHOOSE i \in 1..26 : UpperLetters[i] = c]
    ELSE c

lower(chars) == [i \in DOMAIN chars |-> lower_char(chars[i])]

\* Series.str.lower(): a str cell is lower-cased, a NaN cell stays NaN
str_lower(cell) == IF cell.t = "str" THEN PyStr(lower(cell.s)) ELSE cell

\* Series.astype(str).str.lower(): a NaN cell becomes the text 'nan'
astype_str_lower(cell) ==
    IF cell.t = "str" THEN PyStr(lower(cell.s))
    ELSE IF cell.t = "nan" THEN PyStr(<<"n", "a", "n">>)
    ELSE PyStr(<<"n", "o", "n", "e">>)

\* The .str accessor exists on a column of strings only: a column with rows
\* that holds no str at all (every cell NaN, read as float64) raises
\* AttributeError.
has_str_accessor(df, col) ==
    df.rows = <<>> \/ \E i \in DOMAIN df.rows : df.rows[i][col].t = "str"

\* -------------------------------------------------------- keyword lists
CriticalKeywords ==
    { <<"d", "i", "s", "a", "s", "t", "e", "r">>,
      <<"h", "i", "g", "h">>,
      <<"f", "a", "t", "a", "l">>,
      <<"c", "r", "i", "t", "i", "c", "a", "l">>,
      <<"e", "r", "r", "o", "r">> }
WarningKeywords ==
    { <<"a", "v", "e", "r", "a", "g", "e">>,
      <<"w", "a", "r", "n", "i", "n", "g">>,
      <<"m", "a", "j", "o", "r">>,
      <<"m", "e", "d", "i", "u", "m">> }
InfoKeywords ==
    { <<"i", "n", "f", "o", "r", "m", "a", "t", "i", "o", "n">>,
      <<"i", "n", "f", "o">>,
      <<"l", "o", "w">>,
      <<"n", "o", "t", " ", "c", "l", "a", "s", "s", "i", "f", "i", "e", "d">> }
Tab2CriticalLabels ==
    { <<"D", "i", "s", "a", "s", "t", "e", "r">>,
      <<"H", "i", "g", "h">> }
PROBLEM == <<"P", "R", "O", "B", "L", "E", "M">>
OK == <<"O", "K">>

\* The column names tried for the severity, in order; the fourth is the
\* localized name, written as its code points.
SeverityAliases ==
    <<"Severity", "severity", "SEVERITY", "U+C2EC U+AC01 U+B3C4", "Level", "level">>

\* for col in [...]: if col in df.columns: severity_col = col; break
RECURSIVE first_alias(_, _)
first_alias(columns, i) ==
    IF i > Len(SeverityAliases) THEN "None"
    ELSE IF SeverityAliases[i] \in columns THEN SeverityAliases[i]
    ELSE first_alias(columns, i + 1)

severity_col(df) == first_alias(df.columns, 1)

\* len(df[cells.isin(keywords)]) for the cells of a column after a conversion
count_isin(cells, keywords) ==
    Cardinality({i \in DOMAIN cells : cells[i].t = "str" /\ cells[i].s \in keywords})

\* len(df[df[col] == label])
count_eq(df, col, label) ==
    Cardinality({i \in DOMAIN df.rows : df.rows[i][col] = PyStr(label)})

\* df[col].nunique(): the distinct values that are not NaN
nunique(df, col) ==
    Cardinality({df.rows[i][col] : i \in DOMAIN df.rows} \ {PyNaN, PyNone})

\* f"{count/total*100:.1f}" and f"{a/b:.1f}": the quotient to one decimal,
\* rounded to nearest. A tie (a second decimal of exactly 5) needs a
\* denominator that is a multiple of 16 and does not occur in frames of
\* fewer than 16 rows.
fixed1(tenths) == int_str(tenths \div 10) \o <<".">> \o int_str(tenths % 10)

format_1f(num, den) == fixed1((num * 20 + den) \div (2 * den))

\* (count/total*100):.1f ; ZeroDivisionError when total is 0
percent(count, total) ==
    IF total = 0 THEN Raised("ZeroDivisionError")
    ELSE Returned(format_1f(count * 100, total))

\* (a/b):.1f ; ZeroDivisionError when b is 0
ratio(a, b) ==
    IF b = 0 THEN Raised("ZeroDivisionError")
    ELSE Returned(format_1f(a, b))

\* ------------------------------------------------------- generate_report
\* The statistics of generate_report: the severity bands, the status and
\* host counts, then those of the Time, Duration and Description columns.
lowered(df, col) == [i \in DOMAIN df.rows |-> str_lower(df.rows[i][col])]

report_count_exact(df, keywords) ==
    IF severity_col(df) # "None"
    THEN count_isin(column(df, severity_col(df)), keywords)
    ELSE 0

\* len(df[df[severity_col].str.lower().isin([...])]) if severity_col else 0
report_count(df, keywords) ==
    IF severity_col(df) # "None"
    THEN count_isin(lowered(df, severity_col(df)), keywords)
    ELSE 0

\* len(df[df['Status'] == label]) if 'Status' in df.columns else 0
status_count(df, label) ==
    IF "Status" \in df.columns THEN count_eq(df, "Status", label) ELSE 0

\* df['Host'].nunique() if 'Host' in df.columns else 0
unique_hosts(df) == IF "Host" \in df.columns THEN nunique(df, "Host") ELSE 0

\* ---- the time statistics: lines 484-504
\* strftime('%Y-%m-%d %H:%M')
strftime_minute(ts) == SubSeq(stamp(date(ts) + 1, hour(ts)), 1, 16)

min_time(times) ==
    times[CHOOSE i \in DOMAIN times : \A j \in DOMAIN times : hours(times[i]) <= hours(times[j])]
max_time(times) ==
    times[CHOOSE i \in DOMAIN times : \A j \in DOMAIN times : hours(times[i]) >= hours(times[j])]

\* f"{min.strftime(...)} ~ {max.strftime(...)}"
time_range(times) ==
    strftime_minute(min_time(times)) \o <<" ", "~", " ">> \o strftime_minute(max_time(times))

\* (max - min).days + 1
total_days(times) == ((hours(max_time(times)) - hours(min_time(times))) \div 24) + 1

\* df.groupby(df['Time'].dt.hour).size(): the count of an hour, the hours present
hour_size(times, h) == Cardinality({i \in DOMAIN times : hour(times[i]) = h})
hours_present(times) == {hour(times[i]) : i \in DOMAIN times}

\* .idxmax(): the first hour with the largest count
idxmax(times, present) ==
    CHOOSE h \in present :
        \A g \in present :
            \/ hour_size(times, h) > hour_size(times, g)
            \/ hour_size(times, h) = hour_size(times, g) /\ h <= g

\* The hour as the report prints it: the hours of a column with a NaT are
\* floats.
hour_text(h, is_float) == int_str(h) \o (IF is_float THEN <<".", "0">> ELSE <<>>)

\* df.groupby(df['Time'].dt.date).size()
date_size(times, d) == Cardinality({i \in DOMAIN times : date(times[i]) = d})
dates_present(times) == {date(times[i]) : i \in DOMAIN times}
daily_sizes(times) == {date_size(times, d) : d \in dates_present(times)}
daily_max(times) == CHOOSE n \in daily_sizes(times) : \A m \in daily_sizes(times) : m <= n
daily_min(times) == CHOOSE n \in daily_sizes(times) : \A m \in daily_sizes(times) : n <= m

\* daily_stats.mean(), printed :.1f
daily_avg(times) == format_1f(Len(times), Cardinality(dates_present(times)))

PeakHours == 5

\* hourly counts .nlargest(n): the n hours of the largest counts
RECURSIVE nlargest(_, _, _)
nlargest(times, present, n) ==
    IF n = 0 \/ present = {} THEN <<>>
    ELSE <<[hour |-> idxmax(times, present),
            count |-> hour_size(times, idxmax(times, present))]>>
         \o nlargest(times, present \ {idxmax(times, present)}, n - 1)

\* The lines f"{hour:02d}: {count}" of hourly_dist.nlargest(5)
hourly_lines(times) ==
    [k \in DOMAIN nlargest(times, hours_present(times), PeakHours) |->
        [ hour |-> two_digits(nlargest(times, hours_present(times), PeakHours)[k].hour),
          count |-> nlargest(times, hours_present(times), PeakHours)[k].count ]]

\* ---- Duration: lines 507-515
duration_seconds(df) ==
    [i \in DOMAIN df.rows |-> parse_duration_to_seconds(df.rows[i]["Duration"]).val]

\* The rows kept had the rows of zero seconds been kept as well.
not_negative(secs) == SelectSeq(secs, LAMBDA x : x >= 0)

\* df[df['Duration_seconds'] > 0]['Duration_seconds']
positive(secs) == SelectSeq(secs, LAMBDA x : x > 0)

RECURSIVE sum(_)
sum(secs) == IF secs = <<>> THEN 0 ELSE Head(secs) + sum(Tail(secs))

\* format_seconds_to_duration(mean) if not pd.isna(mean) else "N/A"
avg_duration_str(secs) ==
    IF secs = <<>> THEN NA
    ELSE format_seconds_to_duration([n |-> sum(secs), d |-> Len(secs)])

max_duration_str(secs) ==
    IF secs = <<>> THEN NA
    ELSE format_seconds_to_duration(
             Num(CHOOSE x \in {secs[i] : i \in DOMAIN secs} :
                     \A i \in DOMAIN secs : secs[i] <= x))

\* ---- value_counts(): lines 481, 518
\* The distinct values that are not NaN, in the order of their first rows.
RECURSIVE first_values(_, _)
first_values(cells, i) ==
    IF i > Len(cells) THEN <<>>
    ELSE (IF notna(cells[i]) /\ \A j \in 1..(i - 1) : cells[j] # cells[i]
          THEN <<cells[i]>> ELSE <<>>)
         \o first_values(cells, i + 1)

count_of(cells, v) == Cardinality({i \in DOMAIN cells : cells[i] = v})

RECURSIVE insert_value(_, _, _)
insert_value(cells, sorted, v) ==
    IF sorted = <<>> THEN <<v>>
    ELSE IF count_of(cells, v) > count_of(cells, sorted[Len(sorted)])
    THEN Append(insert_value(cells, SubSeq(sorted, 1, Len(sorted) - 1), v),
                sorted[Len(sorted)])
    ELSE Append(sorted, v)

RECURSIVE by_count(_, _)
by_count(cells, values) ==
    IF values = <<>> THEN <<>>
    ELSE insert_value(cells, by_count(cells, SubSeq(values, 1, Len(values) - 1)),
                      values[Len(values)])

\* How the quicksort of the build leaves equal keys: "first" or "last".
VARIABLE quicksort_ties

RECURSIVE reversed(_)
reversed(seq) == IF seq = <<>> THEN <<>> ELSE Append(reversed(Tail(seq)), Head(seq))

\* The longest array numpy's quicksort, the default kind of sort_values,
\* sorts by insertion alone: beyond it the array is partitioned and equal
\* keys keep no order.
SmallSort == 16

\* The distinct values as the sort of the counts takes them: in the order of
\* their first rows, which a sort by insertion keeps among equal counts; of
\* the orders a partitioning sort can leave equal counts in, the model has
\* that one and its reverse.
sort_input(values) ==
    IF Len(values) > SmallSort /\ quicksort_ties = "last" THEN reversed(values) ELSE values

\* Series.value_counts(): the values by falling count, that is
\* Series(counts, index=keys).sort_values(ascending=False)
value_counts(cells) == by_count(cells, sort_input(first_values(cells, 1)))

\* .head(n)
head(seq, n) == SubSeq(seq, 1, IF Len(seq) < n THEN Len(seq) ELSE n)

TopHosts == 10
TopIssues == 15
IssueWidth == 100

\* The text had the ellipsis been put behind a description of the width itself.
issue_text_from_width(chars) ==
    IF Len(chars) >= IssueWidth
    THEN SubSeq(chars, 1, IssueWidth) \o <<".", ".", ".">>
    ELSE chars

\* issue[:100] and '...' behind a longer one
issue_text(chars) ==
    IF Len(chars) > IssueWidth
    THEN SubSeq(chars, 1, IssueWidth) \o <<".", ".", ".">>
    ELSE chars

\* The lines of a top list: the value, its count and (count/total*100):.1f
top_lines(cells, values, total) ==
    [k \in DOMAIN values |->
        [ value |-> values[k].s,
          count |-> count_of(cells, values[k]),
          pct |-> percent(count_of(cells, values[k]), total).val ]]

top_hosts(df) ==
    IF "Host" \in df.columns
    THEN top_lines(column(df, "Host"), head(value_counts(column(df, "Host")), TopHosts),
                   len(df))
    ELSE <<>>

\* The lines of the top issues: each description as issue_text prints it
issue_lines(lines) == [k \in DOMAIN lines |-> [lines[k] EXCEPT !.value = issue_text(@)]]

top_issues(df) ==
    IF "Description" \in df.columns
    THEN issue_lines(top_lines(column(df, "Description"),
                               head(value_counts(column(df, "Description")), TopIssues),
                               len(df)))
    ELSE <<>>

has_nat(df) == "Time" \in df.columns /\ Len(valid_times(df)) < len(df)

\* The summary table: the rows of summary_data, lines 599-603
summary_data(df) ==
    [ total_events |-> len(df),
      daily_avg |-> IF "Time" \in df.columns THEN daily_avg(valid_times(df))
                    ELSE <<"0", ".", "0">>,
      critical_events |-> report_count(df, CriticalKeywords),
      warning_events |-> report_count(df, WarningKeywords),
      info_events |-> report_count(df, InfoKeywords),
      unique_hosts |-> unique_hosts(df),
      critical_pct |-> percent(report_count(df, CriticalKeywords), len(df)).val,
      warning_pct |-> percent(report_count(df, WarningKeywords), len(df)).val,
      info_pct |-> percent(report_count(df, InfoKeywords), len(df)).val ]

\* The statistics and the lines of the report text and of the summary table
\* that print them; the Time column of df is converted.
report_content(df) ==
    [ kind |-> "report",
      total_events |-> len(df),
      critical_events |-> report_count(df, CriticalKeywords),
      warning_events |-> report_count(df, WarningKeywords),
      info_events |-> report_count(df, InfoKeywords),
      problem_events |-> status_count(df, PROBLEM),
      ok_events |-> status_count(df, OK),
      unique_hosts |-> unique_hosts(df),
      critical_pct |-> percent(report_count(df, CriticalKeywords), len(df)).val,
      warning_pct |-> percent(report_count(df, WarningKeywords), len(df)).val,
      info_pct |-> percent(report_count(df, InfoKeywords), len(df)).val,
      avg_per_host |-> ratio(len(df), unique_hosts(df)).val,
      time_range |-> IF "Time" \in df.columns THEN time_range(valid_times(df)) ELSE NA,
      total_days |-> IF "Time" \in df.columns THEN total_days(valid_times(df)) ELSE 0,
      peak_hour |-> IF "Time" \in df.columns
                    THEN hour_text(idxmax(valid_times(df), hours_present(valid_times(df))),
                                   has_nat(df))
                    ELSE NA,
      daily_avg |-> IF "Time" \in df.columns THEN daily_avg(valid_times(df))
                    ELSE <<"0", ".", "0">>,
      daily_max |-> IF "Time" \in df.columns THEN daily_max(valid_times(df)) ELSE 0,
      daily_min |-> IF "Time" \in df.columns THEN daily_min(valid_times(df)) ELSE 0,
      hourly_dist |-> IF "Time" \in df.columns THEN hourly_lines(valid_times(df))
                      ELSE <<>>,
      avg_duration_str |-> IF "Duration" \in df.columns
                           THEN avg_duration_str(positive(duration_seconds(df)))
                           ELSE NA,
      max_duration_str |-> IF "Duration" \in df.columns
                           THEN max_duration_str(positive(duration_seconds(df)))
                           ELSE NA,
      top_hosts |-> top_hosts(df),
      top_issues |-> top_issues(df),
      summary |-> summary_data(df) ]

\* The statistics of a frame whose Time column is converted: .str of a
\* severity column without strings raises AttributeError (line 469),
\* NaT.strftime ValueError when no row has a time (line 485), the
\* percentages of the report text ZeroDivisionError for no row or no host
\* (lines 536-544), and the format :02d of a float hour ValueError when a
\* row has no time (line 565).
report_of_converted(df) ==
    IF severity_col(df) # "None" /\ ~has_str_accessor(df, severity_col(df))
    THEN Raised("AttributeError")
    ELSE IF "Time" \in df.columns /\ valid_times(df) = <<>>
    THEN Raised("ValueError")
    ELSE IF len(df) = 0 \/ unique_hosts(df) = 0
    THEN Raised("ZeroDivisionError")
    ELSE IF "Time" \in df.columns /\ has_nat(df)
    THEN Raised("ValueError")
    ELSE Returned(report_content(df))

\* df['Time'] = pd.to_datetime(df['Time']) of line 456, then the statistics
report_of(df) ==
    IF "Time" \notin df.columns THEN report_of_converted(df)
    ELSE IF to_datetime(df).exc # "none" THEN Raised("ValueError")
    ELSE report_of_converted(to_datetime(df).val)

\* st.session_state[k] = v
SetKey(ss, k, v) == [x \in DOMAIN ss \cup {k} |-> IF x = k THEN v ELSE ss[x]]

\* [data['data'] for data in st.session_state['event_files'].values()]
frames(event_files) == [i \in DOMAIN event_files |-> event_files[i].data]

\* df = event_data.copy() if 'event_data' in session_state, else the
\* concatenation of the stored files
report_source(ss) ==
    IF "event_data" \in DOMAIN ss THEN Returned(ss["event_data"])
    ELSE concat(frames(ss["event_files"]))

report_from(source) ==
    IF source.exc # "none" THEN source ELSE report_of(source.val)

NoData == [kind |-> "no data"]

\* The local df of generate_report: none without data or when the
\* concatenation raised.
report_df(ss) ==
    IF "event_data" \notin DOMAIN ss /\ "event_files" \notin DOMAIN ss
    THEN EmptyFrame
    ELSE IF report_source(ss).exc # "none" THEN EmptyFrame
    ELSE report_source(ss).val

generate_report(ss) ==
    IF "event_data" \notin DOMAIN ss /\ "event_files" \notin DOMAIN ss
    THEN Returned(NoData)
    ELSE report_from(report_source(ss))

\* The report had its days been counted up to the time of the call.
generated_at_counting_days(outcome, now) ==
    IF outcome.exc = "none" /\ outcome.val.kind = "report"
    THEN Returned([k \in DOMAIN outcome.val \cup {"generated_at"} |->
                      IF k = "generated_at" THEN now
                      ELSE IF k = "total_days" THEN outcome.val[k] + now
                      ELSE outcome.val[k]])
    ELSE outcome

\* The line f"{datetime.now().strftime('%Y-%m-%d %H:%M:%S')}" of the text, 523
generated_at(outcome, now) ==
    IF outcome.exc = "none" /\ outcome.val.kind = "report"
    THEN Returned([k \in DOMAIN outcome.val \cup {"generated_at"} |->
                      IF k = "generated_at" THEN now ELSE outcome.val[k]])
    ELSE outcome

\* The local df of generate_report at its end: the Time column converted
\* (line 456), the column Duration_seconds added (line 508).
PyInt(n) == [t |-> "int", s |-> <<n>>]

report_local_df(frame) ==
    IF "Duration" \notin frame.columns THEN converted(frame)
    ELSE DataFrame(frame.columns \cup {"Duration_seconds"},
                   [i \in DOMAIN frame.rows |->
                       [c \in frame.columns \cup {"Duration_seconds"} |->
                           IF c = "Duration_seconds"
                           THEN PyInt(duration_seconds(frame)[i])
                           ELSE converted(frame).rows[i][c]]])

\* The session had df been event_data itself, no copy of it.
session_after_report_nocopy(ss) ==
    IF "event_data" \in DOMAIN ss
    THEN SetKey(ss, "event_data", report_local_df(ss["event_data"]))
    ELSE ss

\* The session after generate_report: df is event_data.copy() (line 449) or
\* the fresh frame of pd.concat (line 452), so that the assignments to df
\* reach no stored frame.
session_after_report(ss) == ss

\* -------------------------------------------- perform_simple_ai_analysis
stringified(df, col) == [i \in DOMAIN df.rows |-> astype_str_lower(df.rows[i][col])]

\* The keyword lists of lines 176 and 177
AnalysisCriticalKeywords ==
    { <<"d", "i", "s", "a", "s", "t", "e", "r">>,
      <<"h", "i", "g", "h">>,
      <<"f", "a", "t", "a", "l">>,
      <<"c", "r", "i", "t", "i", "c", "a", "l">>,
      <<"e", "r", "r", "o", "r">> }
AnalysisWarningKeywords ==
    { <<"a", "v", "e", "r", "a", "g", "e">>,
      <<"w", "a", "r", "n", "i", "n", "g">>,
      <<"m", "a", "j", "o", "r">>,
      <<"m", "e", "d", "i", "u", "m">> }

\* The count had the labels been matched as they are written in the file.
analysis_count_as_written(df, keywords) ==
    IF severity_col(df) # "None"
    THEN count_isin(column(df, severity_col(df)), keywords)
    ELSE 0

\* len(df_severity[df_severity[severity_col].isin([...])]) after
\* astype(str).str.lower(), 0 without a severity column
analysis_count(df, keywords) ==
    IF severity_col(df) # "None"
    THEN count_isin(stringified(df, severity_col(df)), keywords)
    ELSE 0

\* ---- time_analysis: lines 187-208
AnalysisPeakHours == 3
RecentHours == 24
PriorHours == 48

\* len(df_time[df_time['Time'] >= latest_time - pd.Timedelta(hours=24)])
recent_24h(times) ==
    Cardinality({i \in DOMAIN times :
                    hours(times[i]) >= hours(max_time(times)) - RecentHours})

\* the rows from 48 hours to 24 hours before the latest time
previous_24h(times) ==
    Cardinality({i \in DOMAIN times :
                    /\ hours(times[i]) >= hours(max_time(times)) - PriorHours
                    /\ hours(times[i]) < hours(max_time(times)) - RecentHours})

\* The change taken over the recent count instead of the prior one.
change_rate_of_recent(recent, previous) ==
    IF recent > 0 THEN [n |-> (recent - previous) * 100, d |-> recent] ELSE Num(0)

\* ((recent_24h - previous_24h) / previous_24h * 100) if previous_24h > 0 else 0
change_rate(recent, previous) ==
    IF previous > 0 THEN [n |-> (recent - previous) * 100, d |-> previous] ELSE Num(0)

\* The trend had equal counts been called an increase.
trend_of_no_decrease(recent, previous) ==
    IF recent >= previous THEN "increase" ELSE "decrease"

\* the trend: "increase" if recent_24h > previous_24h else "decrease"
trend(recent, previous) == IF recent > previous THEN "increase" ELSE "decrease"

NoTimes == [present |-> FALSE]

\* time_analysis of rows without any time: the latest time is NaT and every
\* comparison with it is false
time_analysis_of(times) ==
    IF times = <<>>
    THEN [ present |-> TRUE, peak_hours |-> <<>>, recent_24h |-> 0, previous_24h |-> 0,
           trend |-> trend(0, 0), change_rate |-> change_rate(0, 0) ]
    ELSE [ present |-> TRUE,
           peak_hours |-> nlargest(times, hours_present(times), AnalysisPeakHours),
           recent_24h |-> recent_24h(times),
           previous_24h |-> previous_24h(times),
           trend |-> trend(recent_24h(times), previous_24h(times)),
           change_rate |-> change_rate(recent_24h(times), previous_24h(times)) ]

time_analysis(df) ==
    IF "Time" \in df.columns
    THEN time_analysis_of(valid_times(to_datetime(df).val))
    ELSE NoTimes

\* ---- host_analysis: lines 211-227
AnalysisTopHosts == 5

\* total_events / unique_hosts if unique_hosts > 0 else 0
avg_events_per_host(total, hosts) ==
    IF hosts > 0 THEN [n |-> total, d |-> hosts] ELSE Num(0)

\* df[df['Status'] == 'PROBLEM']['Host']
problem_host_cells(df) ==
    [i \in DOMAIN df.rows |->
        IF df.rows[i]["Status"] = PyStr(PROBLEM) THEN df.rows[i]["Host"] ELSE PyNaN]

counted(cells, values) ==
    [k \in DOMAIN values |-> [value |-> values[k].s, count |-> count_of(cells, values[k])]]

NoHosts == [present |-> FALSE]

host_analysis(df) ==
    IF "Host" \in df.columns
    THEN [ present |-> TRUE,
           top_hosts |-> counted(column(df, "Host"),
                                 head(value_counts(column(df, "Host")), AnalysisTopHosts)),
           avg_events_per_host |-> avg_events_per_host(len(df), unique_hosts(df)),
           problem_hosts |->
               IF "Status" \in df.columns
               THEN counted(problem_host_cells(df),
                            head(value_counts(problem_host_cells(df)), AnalysisTopHosts))
               ELSE <<>> ]
    ELSE NoHosts

\* The summary lines of the prompt.
analysis_prompt(df) ==
    [ total_events |-> len(df),
      critical_events |-> analysis_count(df, AnalysisCriticalKeywords),
      warning_events |-> analysis_count(df, AnalysisWarningKeywords),
      unique_hosts |-> unique_hosts(df),
      critical_pct |-> percent(analysis_count(df, AnalysisCriticalKeywords), len(df)).val,
      warning_pct |-> percent(analysis_count(df, AnalysisWarningKeywords), len(df)).val,
      time_analysis |-> time_analysis(df),
      host_analysis |-> host_analysis(df) ]

\* The exception that ends the try block before the request, "none" if none:
\* pd.to_datetime of line 191, the percentages of lines 240-241.
analysis_fault(df) ==
    IF "Time" \in df.columns /\ to_datetime(df).exc # "none" THEN "ValueError"
    ELSE IF len(df) = 0 THEN "ZeroDivisionError"
    ELSE "none"

NoPrompt == [total_events |-> -1]

Unavailable == [kind |-> "unavailable", prompt |-> NoPrompt]
ErrorMessage(e) == [kind |-> "error", error |-> e, prompt |-> NoPrompt]
\* response.choices[0].message.content: the text is the service's own
Response == [kind |-> "response"]

\* The prompt that perform_simple_ai_analysis sends: none without a
\* configured client, none when building the prompt raised.
prompt_sent(df, version) ==
    IF version = "None" \/ analysis_fault(df) # "none" THEN NoPrompt
    ELSE analysis_prompt(df)

\* The str returned had the version not been looked at before the data.
perform_simple_ai_analysis_unchecked(df, version, request_ok) ==
    IF analysis_fault(df) # "none" THEN ErrorMessage(analysis_fault(df))
    ELSE IF version = "None" THEN Unavailable
    ELSE IF ~request_ok THEN ErrorMessage("APIError")
    ELSE Response

\* The str that perform_simple_ai_analysis returns; request_ok tells whether
\* the request to the model succeeds.
perform_simple_ai_analysis(df, version, request_ok) ==
    IF version = "None" THEN Unavailable
    ELSE IF analysis_fault(df) # "none" THEN ErrorMessage(analysis_fault(df))
    ELSE IF ~request_ok THEN ErrorMessage("APIError")
    ELSE Response

\* ---------------------------------------------------------- analysis tab
\* has_data had it looked for the merged frame alone.
has_data_of_merged_only(ss) == "event_data" \in DOMAIN ss

\* has_data of the analysis tab
has_data(ss) ==
    IF "data_mode" \in DOMAIN ss
    THEN \/ ss["data_mode"] = "single" /\ "event_data" \in DOMAIN ss
         \/ ss["data_mode"] = "multiple" /\ "event_files" \in DOMAIN ss
    ELSE "event_data" \in DOMAIN ss

\* elif 'event_data' in st.session_state: data_mode = 'single'
with_legacy_mode(ss) ==
    IF "data_mode" \notin DOMAIN ss /\ "event_data" \in DOMAIN ss
    THEN SetKey(ss, "data_mode", "single")
    ELSE ss

\* The non-empty frames among the files at the selected positions, in order.
RECURSIVE nonempty_selected(_, _, _)
nonempty_selected(event_files, selected, i) ==
    IF i > Len(event_files) THEN <<>>
    ELSE (IF i \in selected /\ ~empty(event_files[i].data)
          THEN <<event_files[i].data>> ELSE <<>>)
         \o nonempty_selected(event_files, selected, i + 1)

\* df = pd.concat(dfs, ignore_index=True), and with a Time column
\* df['Time'] = pd.to_datetime(df['Time']); df = df.sort_values('Time')
merged(dfs) ==
    IF "Time" \notin all_columns(dfs) THEN concat(dfs)
    ELSE IF to_datetime(concat(dfs).val).exc # "none" THEN Raised("ValueError")
    ELSE Returned(sort_values(to_datetime(concat(dfs).val).val))

\* the merged frame if dfs else pd.DataFrame()
merged_or_empty(dfs) == IF dfs = <<>> THEN Returned(EmptyFrame) ELSE merged(dfs)

\* The frame the analysis tab works on, or the exception of its conversion;
\* without a stored file st.selectbox returns None and line 892 raises KeyError.
tab2_df(ss, analysis_option, selected) ==
    IF ss["data_mode"] = "multiple" THEN
        IF analysis_option = "individual"
        THEN (IF selected = {} THEN Raised("KeyError")
              ELSE Returned(ss["event_files"][CHOOSE i \in selected : TRUE].data))
        ELSE IF analysis_option = "selected"
        THEN merged_or_empty(nonempty_selected(ss["event_files"], selected, 1))
        ELSE merged_or_empty(
                 nonempty_selected(ss["event_files"], DOMAIN ss["event_files"], 1))
    ELSE Returned(ss["event_data"])

\* df is a frame of the session itself, no fresh one: the single data or the
\* file analysed individually.
aliased(ss, analysis_option) ==
    ss["data_mode"] = "single" \/ analysis_option = "individual"

\* The session after an assignment into the frame df, when df is a frame of
\* the session itself.
store_back(ss, analysis_option, selected, frame) ==
    IF ss["data_mode"] = "single" THEN SetKey(ss, "event_data", frame)
    ELSE IF analysis_option = "individual"
    THEN SetKey(ss, "event_files",
                [i \in DOMAIN ss["event_files"] |->
                    IF i = (CHOOSE j \in selected : TRUE)
                    THEN [ss["event_files"][i] EXCEPT !.data = frame]
                    ELSE ss["event_files"][i]])
    ELSE ss

\* ---- the time filter: lines 949-981
\* The exception of the filter, "none" if none: pd.to_datetime of line 953,
\* NaT.date() of line 960 when no row has a time.
tab2_filter_fault(df) ==
    IF "Time" \notin df.columns THEN "none"
    ELSE IF to_datetime(df).exc # "none" THEN "ValueError"
    ELSE IF valid_times(to_datetime(df).val) = <<>> THEN "ValueError"
    ELSE "none"

\* The dates taken from st.date_input, which offers min_date.date() to
\* max_date.date(): the two ends of the range.
date_choices(df) ==
    IF "Time" \in df.columns /\ tab2_filter_fault(df) = "none"
    THEN { date(min_time(valid_times(converted(df)))),
           date(max_time(valid_times(converted(df)))) }
    ELSE {0}

\* df[mask]: a row without a time is in no range
masked(df, start_date, end_date) ==
    DataFrame(df.columns,
              SelectSeq(df.rows,
                        LAMBDA row : /\ row["Time"].t = "ts"
                                     /\ date(row["Time"]) >= start_date
                                     /\ date(row["Time"]) <= end_date))

\* if len(filtered_df) < len(df): df = filtered_df
time_filter(df, start_date, end_date) ==
    IF "Time" \notin df.columns THEN df
    ELSE IF len(masked(df, start_date, end_date)) < len(df)
    THEN masked(df, start_date, end_date)
    ELSE df

\* ---- the hourly chart: lines 1083-1088
HoursOfDay == 24

\* The hourly counts as groupby gives them, the hours without a row left out.
all_hours_not_filled(df) ==
    [h \in hours_present(valid_times(df)) |-> hour_size(valid_times(df), h)]

\* all_hours = pd.Series(0, index=range(24)); all_hours.update(hourly_counts)
all_hours(df) == [h \in 0..(HoursOfDay - 1) |-> hour_size(valid_times(df), h)]

\* len(df[df['Severity'].isin(['Disaster', 'High'])]) if 'Severity' in df.columns else 0
tab2_critical_count(df) ==
    IF "Severity" \in df.columns
    THEN count_isin(column(df, "Severity"), Tab2CriticalLabels)
    ELSE 0

\* What the analysis tab shows for a frame: nothing for an empty one.
tab2_metrics(df) ==
    IF empty(df) THEN [kind |-> "empty"]
    ELSE [ kind |-> "metrics",
           total_events |-> len(df),
           hosts |-> unique_hosts(df),
           critical_count |-> tab2_critical_count(df) ]

NoResult == [kind |-> "none"]
NoChart == <<>>

\* The page of the analysis tab for the frame selected and the frame left by
\* the time filter: the metrics of the first, the stored analysis result if
\* there is one, the hourly chart of the second.
tab2_page(selected_df, filtered_df, ss) ==
    [ kind |-> "metrics",
      total_events |-> len(selected_df),
      hosts |-> unique_hosts(selected_df),
      critical_count |-> tab2_critical_count(selected_df),
      result |-> IF "ai_analysis_result" \in DOMAIN ss
                 THEN ss["ai_analysis_result"] ELSE NoResult,
      all_hours |-> IF "Time" \in filtered_df.columns THEN all_hours(filtered_df)
                    ELSE NoChart ]

\* The frame given to perform_simple_ai_analysis had line 175 been an
\* assignment into df itself.
df_after_analysis_nocopy(df, version) ==
    IF version = "None" \/ severity_col(df) = "None" THEN df
    ELSE DataFrame(df.columns,
                   [i \in DOMAIN df.rows |->
                       [c \in DOMAIN df.rows[i] |->
                           IF c = severity_col(df)
                           THEN astype_str_lower(df.rows[i][c])
                           ELSE df.rows[i][c]]])

\* The frame given to perform_simple_ai_analysis, after the call: the
\* assignments go to df.copy() (lines 174, 189) and df.head(100).copy()
\* (line 229).
df_after_analysis(df, version) == df

\* ------------------------------------------------------------------ state
VARIABLES
    fn,                \* the codec function under evaluation
    duration_str,      \* argument of parse_duration_to_seconds
    seconds,           \* argument of format_seconds_to_duration
    duration_series,   \* argument of calculate_average_duration
    parsed,            \* outcome of parse_duration_to_seconds
    formatted,         \* outcome of format_seconds_to_duration
    average,           \* outcome of calculate_average_duration
    OPENAI_VERSION,    \* the client version found at start-up, "None" without one
    file_data,         \* the files read by the upload tab: [name, data] in order
    session_state,     \* st.session_state: a function from the keys set so far
    report,            \* outcome of the last generate_report, while it is shown
    tab2,              \* what the analysis tab shows, while it is shown
    prompt,            \* the prompt sent to the model by the last analysis
    df,                \* the frame the tab shown last worked on
    analysed,          \* the frame the stored analysis result was computed from
    entered,           \* the stored data as the function called last was entered
    previous,          \* outcome of the generate_report before the one shown
    tab1               \* what the prepare button of the upload tab reported

codec_vars == <<fn, duration_str, seconds, duration_series, parsed, formatted, average>>
app_vars == <<OPENAI_VERSION, quicksort_ties, file_data, session_state, report, tab2, prompt, df, analysed, entered, previous, tab1>>
vars == <<codec_vars, app_vars>>

NotRendered == [kind |-> "not rendered"]
NotPrepared == [kind |-> "not prepared"]
NoSession == [k \in {} |-> 0]
NoCall == [called |-> FALSE]

\* The event data of the session: what is stored under event_data and
\* event_files.
StoredData(ss) == [k \in DOMAIN ss \cap {"event_data", "event_files"} |-> ss[k]]

\* The dashboard before any upload, while the codec is evaluated on its own.
AppIdle ==
    /\ OPENAI_VERSION = "None"
    /\ quicksort_ties = "first"
    /\ file_data = <<>>
    /\ session_state = NoSession
    /\ report = NotCalled
    /\ tab2 = NotRendered
    /\ prompt = NoPrompt
    /\ df = EmptyFrame
    /\ analysed = EmptyFrame
    /\ entered = NoCall
    /\ previous = NotCalled
    /\ tab1 = NotPrepared

\* No codec function under evaluation.
CodecIdle ==
    /\ fn = "none"
    /\ duration_str = PyNone /\ seconds = Num(0) /\ duration_series = <<>>
    /\ parsed = NotCalled /\ formatted = NotCalled /\ average = NotCalled

\* ----------------------------------------------------- inputs of the codec
Alphabet == {"1", "2", "d", "h", "m", "s", " ", "-"}
Strings == UNION {[1..n -> Alphabet] : n \in 0..MaxLen}

ExampleStrings ==
    { <<"1", "h", " ", "3", "0", "m">>,
      <<"4", "5", "m">>,
      <<"2", "d", " ", "3", "h">>,
      <<"g", "a", "r", "b", "a", "g", "e">>,
      <<"-", "5", "m">>,
      <<"1", "h", " ", "b", "a", "d">>,
      <<"1", "h", "3", "0", "m">>,
      <<"1", "_", "0", "s", " ", "+", "2", "m">>,
      <<" ", "1", "0", "m", " ", " ", "h", "i">> }

DurationInputs == {PyStr(s) : s \in Strings \cup ExampleStrings} \cup {PyNaN, PyNone}

HourSamples == 0..23
MinuteSamples == {0, 1, 15, 30, 59}
SecondSamples == {0, 1, 59}
WholeSeconds ==
    { d * 86400 + h * 3600 + m * 60 + s :
        d \in 0..MaxDays, h \in HourSamples, m \in MinuteSamples, s \in SecondSamples }
SecondsInputs == {Num(x) : x \in WholeSeconds} \cup {[n |-> 2 * x + 1, d |-> 2] : x \in WholeSeconds}

SeriesEntries ==
    { PyStr(<<"1", "h">>), PyStr(<<"3", "0", "m">>), PyStr(<<>>),
      PyStr(<<"2", "h", " ", "1", "5", "m">>), PyStr(<<"0", "m">>),
      PyStr(<<"4", "5", "s">>), PyStr(<<"b", "a", "d">>), PyStr(<<" ">>), PyNaN }
ExampleSeries ==
    << PyStr(<<"1", "h">>), PyStr(<<"3", "0", "m">>), PyStr(<<>>),
       PyStr(<<"2", "h", " ", "1", "5", "m">>) >>
SeriesInputs == UNION {[1..n -> SeriesEntries] : n \in 0..MaxSeries} \cup {ExampleSeries}

\* ------------------------------------------------- the codec, call by call
InitCodec ==
    /\ AppIdle
    /\ parsed = NotCalled /\ formatted = NotCalled /\ average = NotCalled
    /\ \/ /\ fn = "parse_duration_to_seconds"
          /\ duration_str \in DurationInputs
          /\ seconds = Num(0) /\ duration_series = <<>>
       \/ /\ fn = "format_seconds_to_duration"
          /\ seconds \in SecondsInputs
          /\ duration_str = PyNone /\ duration_series = <<>>
       \/ /\ fn = "calculate_average_duration"
          /\ duration_series \in SeriesInputs
          /\ duration_str = PyNone /\ seconds = Num(0)

\* parse_duration_to_seconds(duration_str)
ParseDuration ==
    /\ parsed = NotCalled
    /\ \/ fn = "parse_duration_to_seconds"
       \/ fn = "format_seconds_to_duration" /\ duration_str.t = "str"
    /\ parsed' = parse_duration_to_seconds(duration_str)
    /\ UNCHANGED <<fn, duration_str, seconds, duration_series, formatted, average, app_vars>>

\* format_seconds_to_duration(seconds)
FormatSeconds ==
    /\ fn = "format_seconds_to_duration"
    /\ formatted = NotCalled
    /\ formatted' = Returned(format_seconds_to_duration(seconds))
    /\ UNCHANGED <<fn, duration_str, seconds, duration_series, parsed, average, app_vars>>

\* The formatted text is handed to the parser:
\* parse_duration_to_seconds(format_seconds_to_duration(seconds))
FeedBack ==
    /\ fn = "format_seconds_to_duration"
    /\ formatted.exc = "none"
    /\ duration_str = PyNone
    /\ duration_str' = PyStr(formatted.val)
    /\ UNCHANGED <<fn, seconds, duration_series, parsed, formatted, average, app_vars>>

\* calculate_average_duration(duration_series)
AverageDuration ==
    /\ fn = "calculate_average_duration"
    /\ average = NotCalled
    /\ average' = Returned(calculate_average_duration(duration_series))
    /\ UNCHANGED <<fn, duration_str, seconds, duration_series, parsed, formatted, app_vars>>

NextCodec == ParseDuration \/ FormatSeconds \/ FeedBack \/ AverageDuration

SpecCodec == InitCodec /\ [][NextCodec]_vars

\* -------------------------------------------------- inputs of the dashboard
Web01 == PyStr(<<"w", "e", "b", "0", "1">>)
Db01 == PyStr(<<"d", "b", "0", "1">>)

\* The severity and status labels of the rows: the cases of the keyword
\* lists in several letter cases, a label outside the lists, and no label.
Disaster == PyStr(<<"D", "i", "s", "a", "s", "t", "e", "r">>)
warning == PyStr(<<"w", "a", "r", "n", "i", "n", "g">>)
Information == PyStr(<<"I", "n", "f", "o", "r", "m", "a", "t", "i", "o", "n">>)
Unknown == PyStr(<<"U", "n", "k", "n", "o", "w", "n">>)
Problem == PyStr(<<"P", "r", "o", "b", "l", "e", "m">>)

SeverityRows ==
    << [Host |-> Web01, Severity |-> Disaster, Status |-> PyStr(PROBLEM)],
       [Host |-> Web01, Severity |-> warning, Status |-> Problem],
       [Host |-> Web01, Severity |-> Information, Status |-> PyStr(OK)],
       [Host |-> Web01, Severity |-> Unknown, Status |-> PyStr(PROBLEM)],
       [Host |-> Web01, Severity |-> PyNaN, Status |-> PyStr(OK)] >>

\* The files list their rows in the order of a list of row kinds: the
\* sequences of 0 to MaxRows rows drawn from it in its order, repeats allowed.
Ascending(n, m) ==
    { f \in [1..n -> 1..m] : \A i \in 1..n : \A j \in 1..n : i < j => f[i] <= f[j] }
listings(kinds) ==
    UNION { { [i \in 1..n |-> kinds[f[i]]] : f \in Ascending(n, Len(kinds)) } :
              n \in 0..MaxRows }

\* Frames with the columns Host, Severity and Status, of 0 to MaxRows rows.
SeverityFrames ==
    { DataFrame({"Host", "Severity", "Status"}, rows) : rows \in listings(SeverityRows) }

\* The four rows of the end-to-end scenario.
ExampleRow(severity) == [Host |-> Web01, Severity |-> PyStr(severity), Status |-> PyStr(PROBLEM)]
ExampleFrame ==
    DataFrame({"Host", "Severity", "Status"},
              << ExampleRow(<<"D", "i", "s", "a", "s", "t", "e", "r">>), ExampleRow(<<"W", "a", "r", "n", "i", "n", "g">>),
                 ExampleRow(<<"W", "a", "r", "n", "i", "n", "g">>), ExampleRow(<<"I", "n", "f", "o", "r", "m", "a", "t", "i", "o", "n">>) >>)

\* Frames that name the severity column Level, or have none, or no host.
AliasFrames ==
    { DataFrame({"Host", "Level"}, <<[Host |-> Db01, Level |-> s]>>) :
        s \in {PyStr(<<"H", "I", "G", "H">>), PyStr(<<"a", "v", "e", "r", "a", "g", "e">>), PyStr(<<"L", "o", "w">>)} }
HostOnlyFrame == DataFrame({"Host"}, <<[Host |-> Db01], [Host |-> Web01]>>)
NoHostFrame ==
    DataFrame({"Severity", "Status"},
              <<[Severity |-> PyStr(<<"H", "i", "g", "h">>), Status |-> PyStr(<<"p", "r", "o", "b", "l", "e", "m">>)]>>)
HeaderOnlyFrame == DataFrame({"Host", "Severity", "Status"}, <<>>)

\* The Time cells of the rows: a text that is no date, an empty cell, and
\* two times of different days and hours, the later one first, as an export
\* lists the newest event first.
TimeValues ==
    << PyStr(<<"b", "a", "d">>), PyNaN, PyStr(stamp(3, 1)), PyStr(stamp(1, 0)) >>

\* Frames with the columns Host and Time, of 0 to MaxRows rows.
TimeFrames ==
    { DataFrame({"Host", "Time"}, rows) :
        rows \in listings([k \in DOMAIN TimeValues |-> [Host |-> Web01, Time |-> TimeValues[k]]]) }

\* Two of the last 24 hours and one of the 24 hours before; and two of each,
\* with a row exactly 24 hours and a row exactly 48 hours before the latest.
TimedRow(day, hr) == [Host |-> Web01, Time |-> PyStr(stamp(day, hr))]
WindowFrames ==
    { DataFrame({"Host", "Time"}, <<TimedRow(3, 10), TimedRow(3, 5), TimedRow(2, 8)>>),
      DataFrame({"Host", "Time"},
                <<TimedRow(2, 10), TimedRow(3, 10), TimedRow(1, 10), TimedRow(1, 20)>>) }

\* A frame with all the columns the report reads.
FullRow(day, hr, host, severity, status, duration, description) ==
    [ Time |-> PyStr(stamp(day, hr)), Host |-> host, Severity |-> PyStr(severity),
      Status |-> PyStr(status), Duration |-> duration, Description |-> PyStr(description) ]
FullFrame ==
    DataFrame({"Time", "Host", "Severity", "Status", "Duration", "Description"},
              << FullRow(1, 9, Web01, <<"H", "i", "g", "h">>, PROBLEM, PyStr(<<"1", "h">>), <<"d", "i", "s", "k", " ", "f", "u", "l", "l">>),
                 FullRow(1, 9, Db01, <<"W", "a", "r", "n", "i", "n", "g">>, OK, PyStr(<<"3", "0", "m">>), <<"d", "i", "s", "k", " ", "f", "u", "l", "l">>),
                 FullRow(2, 14, Web01, <<"I", "n", "f", "o", "r", "m", "a", "t", "i", "o", "n">>, PROBLEM, PyNaN, <<"c", "p", "u", " ", "l", "o", "a", "d">>) >>)

\* A frame with a Duration and a Description column and no Time column.
DurationFrame ==
    DataFrame({"Host", "Duration", "Description"},
              << [Host |-> Web01, Duration |-> PyStr(<<"1", "h">>), Description |-> PyStr(<<"c", "p", "u", " ", "l", "o", "a", "d">>)],
                 [Host |-> Web01, Duration |-> PyStr(<<"b", "a", "d">>), Description |-> PyNaN] >>)

\* A frame with a description one character longer than the width printed,
\* one of exactly that width, and a short one.
LongIssue == [i \in 1..(IssueWidth + 1) |-> "x"]
WideIssue == [i \in 1..IssueWidth |-> "y"]
IssueFrame ==
    DataFrame({"Host", "Description"},
              << [Host |-> Web01, Description |-> PyStr(LongIssue)],
                 [Host |-> Db01, Description |-> PyStr(WideIssue)],
                 [Host |-> Web01, Description |-> PyStr(LongIssue)] >>)

\* Frames with a Duration column: one without a row of a positive duration,
\* and one of positive durations among a zero, a negative and an empty one.
DurationRow(chars) == [Host |-> Web01, Duration |-> PyStr(chars)]
NoDurationFrame ==
    DataFrame({"Host", "Duration"},
              << DurationRow(<<"0", "m">>), [Host |-> Db01, Duration |-> PyNaN],
                 DurationRow(<<"b", "a", "d">>) >>)
MixedDurationFrame ==
    DataFrame({"Host", "Duration"},
              << DurationRow(<<"2", "h">>), DurationRow(<<"0", "m">>),
                 DurationRow(<<"-", "5", "m">>), [Host |-> Db01, Duration |-> PyNaN],
                 DurationRow(<<"3", "0", "m">>) >>)

\* A frame of more hosts than a sort by insertion takes, one row each.
HostNo(k) == PyStr(<<"h">> \o int_str(k))
ManyHostsFrame ==
    DataFrame({"Host"}, [k \in 1..(SmallSort + 1) |-> [Host |-> HostNo(k)]])

Frames ==
    SeverityFrames \cup {ExampleFrame, HostOnlyFrame, NoHostFrame} \cup AliasFrames
        \cup TimeFrames \cup WindowFrames \cup {FullFrame, DurationFrame, IssueFrame, ManyHostsFrame,
                  NoDurationFrame, MixedDurationFrame}

\* The frame of a file as the upload tab leaves it: the preview converts the
\* Time column inside a try block, lines 721-727
preview(f) == converted(f)

SmallFrameList ==
    << HeaderOnlyFrame, HostOnlyFrame,
       DataFrame({"Host", "Time"}, <<TimedRow(3, 23), TimedRow(1, 0)>>),
       DataFrame({"Host", "Severity", "Status"},
                 <<[Host |-> Web01, Severity |-> PyStr(<<"D", "i", "s", "a", "s", "t", "e", "r">>), Status |-> PyStr(<<"P", "r", "o", "b", "l", "e", "m">>)]>>) >>
SmallFrames == {SmallFrameList[k] : k \in DOMAIN SmallFrameList}

File(name, data) == [name |-> name, data |-> data]
SingleUploads == { <<File("a.csv", preview(f))>> : f \in Frames }
SmallUploads == { <<File("a.csv", preview(f))>> : f \in SmallFrames }
\* Two files, given in the order of the list.
PairUploads ==
    { <<File("a.csv", preview(SmallFrameList[k[1]])),
        File("b.csv", preview(SmallFrameList[k[2]]))>> :
        k \in {x \in (DOMAIN SmallFrameList) \X (DOMAIN SmallFrameList) : x[1] <= x[2]} }

\* The uploads of the sessions in which the files are replaced: a file
\* without rows, a file with rows, or files of which none could be read (df
\* is None for each, line 690), so that file_data stays empty.
NoFileRead == <<>>
ChangingUploads ==
    { <<File("a.csv", preview(HeaderOnlyFrame))>>,
      <<File("a.csv", preview(HostOnlyFrame))>>,
      NoFileRead }

AnalysisOptions == {"individual", "selected", "all"}

\* The readings of datetime.now(), in seconds counted from the reading of
\* the report generated just before: a clock that does not run backwards
\* reads 0 or more; the first report of a sequence reads 0.
Clock == 0..MaxClock
readings(outcome) ==
    IF outcome.exc = "none" /\ outcome.val.kind = "report" THEN Clock ELSE {0}

\* --------------------------------------------------------- the dashboard
Init ==
    /\ CodecIdle
    /\ session_state = NoSession
    /\ report = NotCalled
    /\ tab2 = NotRendered
    /\ prompt = NoPrompt
    /\ df = EmptyFrame
    /\ analysed = EmptyFrame
    /\ entered = NoCall
    /\ previous = NotCalled
    /\ tab1 = NotPrepared
    /\ \/ OPENAI_VERSION = "1.0+" /\ file_data \in SingleUploads \cup PairUploads
       \/ OPENAI_VERSION = "0.28" /\ file_data \in SmallUploads
       \/ OPENAI_VERSION = "None" /\ file_data \in ChangingUploads
    /\ quicksort_ties \in {"first", "last"}
    /\ quicksort_ties = "last" => file_data = <<File("a.csv", preview(ManyHostsFrame))>>

\* Upload tab: other files are given to the uploader of line 657, and the
\* script reads them into a new file_data; the session state stays. Files
\* are replaced in the sessions without a client.
UploadFiles ==
    /\ OPENAI_VERSION = "None"
    /\ file_data' \in ChangingUploads \ {file_data}
    /\ report' = NotCalled /\ tab2' = NotRendered /\ prompt' = NoPrompt
    /\ previous' = NotCalled /\ tab1' = NotPrepared
    /\ df' = EmptyFrame /\ entered' = NoCall
    /\ UNCHANGED <<OPENAI_VERSION, quicksort_ties, session_state, analysed, codec_vars>>

\* Upload tab, "keep the files separate": the button of line 762
PrepareIndividual ==
    /\ session_state' =
           SetKey(SetKey(session_state, "event_files", file_data), "data_mode", "multiple")
    /\ tab1' = [kind |-> "kept", files |-> Len(file_data)]
    /\ report' = NotCalled /\ tab2' = NotRendered /\ prompt' = NoPrompt
    /\ previous' = NotCalled
    /\ df' = EmptyFrame /\ entered' = NoCall
    /\ UNCHANGED analysed
    /\ UNCHANGED <<OPENAI_VERSION, quicksort_ties, file_data, codec_vars>>

\* The session had the merge branch stored the empty frame of no rows.
merged_session_storing_nothing(ss, all_dfs) ==
    IF all_dfs = <<>>
    THEN SetKey(SetKey(ss, "event_data", EmptyFrame), "data_mode", "single")
    ELSE IF merged(all_dfs).exc # "none" THEN ss
    ELSE SetKey(SetKey(ss, "event_data", merged(all_dfs).val), "data_mode", "single")

\* if not all_dfs: an error message; else the merged frame is stored, unless
\* its conversion raised into the except of line 842
merged_session(ss, all_dfs) ==
    IF all_dfs = <<>> THEN ss
    ELSE IF merged(all_dfs).exc # "none" THEN ss
    ELSE SetKey(SetKey(ss, "event_data", merged(all_dfs).val), "data_mode", "single")

\* st.error of line 788 without a frame to merge, that of line 842 when the
\* conversion raised, else st.success of line 800
merge_message(all_dfs) ==
    IF all_dfs = <<>> THEN [kind |-> "nothing to merge"]
    ELSE IF merged(all_dfs).exc # "none" THEN [kind |-> "error"]
    ELSE [kind |-> "merged", files |-> Len(all_dfs)]

\* Upload tab, "merge into one": the button of line 762
PrepareMerge ==
    /\ session_state' =
           merged_session(session_state, nonempty_selected(file_data, DOMAIN file_data, 1))
    /\ tab1' = merge_message(nonempty_selected(file_data, DOMAIN file_data, 1))
    /\ report' = NotCalled /\ tab2' = NotRendered /\ prompt' = NoPrompt
    /\ previous' = NotCalled
    /\ df' = EmptyFrame /\ entered' = NoCall
    /\ UNCHANGED analysed
    /\ UNCHANGED <<OPENAI_VERSION, quicksort_ties, file_data, codec_vars>>

\* The selections the widgets of the analysis tab allow.
Selectable(ss, analysis_option, selected) ==
    IF ss["data_mode"] = "multiple"
    THEN /\ selected \subseteq DOMAIN ss["event_files"]
         /\ analysis_option = "individual" =>
                Cardinality(selected) = (IF ss["event_files"] = <<>> THEN 0 ELSE 1)
         /\ analysis_option = "all" => selected = DOMAIN ss["event_files"]
    ELSE analysis_option = "all" /\ selected = {}

\* The analysis tab is rendered without data.
AnalysisTabNoData ==
    /\ ~has_data(session_state)
    /\ tab2' = [kind |-> "no data"]
    /\ report' = NotCalled /\ prompt' = NoPrompt /\ previous' = NotCalled
    /\ tab1' = NotPrepared
    /\ df' = EmptyFrame /\ entered' = NoCall
    /\ UNCHANGED <<OPENAI_VERSION, quicksort_ties, file_data, session_state, analysed, codec_vars>>

\* The analysis tab without data, with a file given to its own uploader: the
\* frame read from it is stored, as read, and the script is run again. The
\* file is one of those given to the upload tab.
AnalysisTabUpload ==
    /\ ~has_data(session_state)
    /\ \E i \in DOMAIN file_data, f \in Frames :
          /\ preview(f) = file_data[i].data
          /\ session_state' =
                 SetKey(SetKey(session_state, "event_data", f), "data_mode", "single")
    /\ report' = NotCalled /\ tab2' = NotRendered /\ prompt' = NoPrompt
    /\ tab1' = NotPrepared
    /\ previous' = NotCalled
    /\ df' = EmptyFrame /\ entered' = NoCall
    /\ UNCHANGED analysed
    /\ UNCHANGED <<OPENAI_VERSION, quicksort_ties, file_data, codec_vars>>

\* The script of the analysis tab ends in an exception.
Aborted(ss, error) ==
    /\ session_state' = ss
    /\ tab2' = [kind |-> "exception", error |-> error]
    /\ df' = EmptyFrame
    /\ prompt' = NoPrompt
    /\ entered' = NoCall
    /\ UNCHANGED analysed

\* The session after the click on "run the analysis", lines 991-997. Of the
\* reading of the clock under ai_analysis_time only its presence is kept: it
\* is read by the caption of line 1005 alone.
analysed_session(ss, analysis_option, selected, selected_df, filtered_df, request_ok) ==
    SetKey(SetKey(IF aliased(ss, analysis_option) /\ filtered_df = converted(selected_df)
                  THEN store_back(ss, analysis_option, selected,
                                  df_after_analysis(filtered_df, OPENAI_VERSION))
                  ELSE ss,
                  "ai_analysis_result",
                  perform_simple_ai_analysis(filtered_df, OPENAI_VERSION, request_ok)),
           "ai_analysis_time", "datetime")

\* The tab from the metrics on, for the frame selected and the frame the
\* time filter left; ss holds the Time column as line 953 converted it.
RenderFiltered(ss, analysis_option, selected, selected_df, filtered_df, click, request_ok) ==
    /\ df' = filtered_df
    /\ IF click
       THEN /\ session_state' =
                   analysed_session(ss, analysis_option, selected, selected_df,
                                    filtered_df, request_ok)
            /\ prompt' = prompt_sent(filtered_df, OPENAI_VERSION)
            /\ analysed' = filtered_df
            /\ entered' = StoredData(ss)
       ELSE /\ session_state' = ss
            /\ prompt' = NoPrompt
            /\ entered' = NoCall
            /\ UNCHANGED analysed
    /\ tab2' = tab2_page(selected_df, filtered_df, session_state')

\* The tab for the frame selected, lines 936-981
RenderFrame(ss, analysis_option, selected, selected_df, click, request_ok) ==
    IF empty(selected_df)
    THEN /\ ~click
         /\ session_state' = ss
         /\ tab2' = tab2_metrics(selected_df)
         /\ df' = selected_df
         /\ prompt' = NoPrompt
         /\ entered' = NoCall
         /\ UNCHANGED analysed
    ELSE IF tab2_filter_fault(selected_df) # "none"
    THEN /\ ~click
         /\ Aborted(store_back(ss, analysis_option, selected, converted(selected_df)),
                    tab2_filter_fault(selected_df))
    ELSE \E start_date \in date_choices(selected_df), end_date \in date_choices(selected_df) :
            RenderFiltered(store_back(ss, analysis_option, selected, converted(selected_df)),
                           analysis_option, selected, selected_df,
                           time_filter(converted(selected_df), start_date, end_date),
                           click, request_ok)

\* file_names, as the positions of the stored files; none in single mode
stored_files(ss) == IF "event_files" \in DOMAIN ss THEN ss["event_files"] ELSE <<>>

\* The script of the analysis tab with data, lines 878-1088
RenderTab(ss, click) ==
    \E analysis_option \in AnalysisOptions, selected \in SUBSET DOMAIN stored_files(ss) :
        /\ Selectable(ss, analysis_option, selected)
        /\ IF tab2_df(ss, analysis_option, selected).exc # "none"
           THEN ~click /\ Aborted(ss, tab2_df(ss, analysis_option, selected).exc)
           ELSE \E request_ok \in (IF click THEN BOOLEAN ELSE {TRUE}) :
                   RenderFrame(ss, analysis_option, selected,
                               tab2_df(ss, analysis_option, selected).val,
                               click, request_ok)

\* The analysis tab is rendered with data: the frame is selected and
\* filtered, its metrics, the stored result and the charts are shown.
AnalysisTab ==
    /\ has_data(session_state)
    /\ RenderTab(with_legacy_mode(session_state), FALSE)
    /\ report' = NotCalled /\ previous' = NotCalled /\ tab1' = NotPrepared
    /\ UNCHANGED <<OPENAI_VERSION, quicksort_ties, file_data, codec_vars>>

\* The analysis tab with a click on "run the analysis": lines 991-997
RunAnalysis ==
    /\ has_data(session_state)
    /\ RenderTab(with_legacy_mode(session_state), TRUE)
    /\ report' = NotCalled /\ previous' = NotCalled /\ tab1' = NotPrepared
    /\ UNCHANGED <<OPENAI_VERSION, quicksort_ties, file_data, codec_vars>>

\* Report tab, "generate the report": line 1470
GenerateReport ==
    /\ \E now \in readings(report) :
          report' = generated_at(generate_report(session_state), now)
    /\ session_state' = session_after_report(session_state)
    /\ df' = report_df(session_state)
    /\ entered' = StoredData(session_state)
    /\ previous' = generated_at(report, 0)
    /\ tab2' = NotRendered /\ prompt' = NoPrompt /\ tab1' = NotPrepared
    /\ UNCHANGED <<OPENAI_VERSION, quicksort_ties, file_data, analysed, codec_vars>>

Next ==
    \/ UploadFiles
    \/ PrepareIndividual
    \/ PrepareMerge
    \/ AnalysisTabNoData
    \/ AnalysisTabUpload
    \/ AnalysisTab
    \/ RunAnalysis
    \/ GenerateReport

Spec == Init /\ [][Next]_vars

\* ---------------------------------------------- properties of the codec
UnitLetters == {"d", "h", "m", "s"}
Multiplier(u) == CASE u = "d" -> 86400 [] u = "h" -> 3600 [] u = "m" -> 60 [] u = "s" -> 1

\* The number written by the maximal run of digits that ends at position j.
RECURSIVE RunValue(_, _)
RunValue(s, j) ==
    IF j < 1 THEN 0
    ELSE IF s[j] \notin DigitSet THEN 0
    ELSE 10 * RunValue(s, j - 1) + DigitVal(s[j])

\* Only whitespace-separated tokens, each one or more digits immediately
\* followed by one unit letter.
WellFormedDuration(s) ==
    \A i \in DOMAIN s :
        /\ s[i] \in DigitSet \cup UnitLetters \cup Whitespace
        /\ s[i] \in UnitLetters =>
              /\ i > 1 /\ s[i - 1] \in DigitSet
              /\ i = Len(s) \/ s[i + 1] \in Whitespace
        /\ s[i] \in DigitSet =>
              i < Len(s) /\ s[i + 1] \in DigitSet \cup UnitLetters

\* Sum, over the unit letters at positions 1..i, of integer x multiplier.
RECURSIVE TokenSum(_, _)
TokenSum(s, i) ==
    IF i < 1 THEN 0
    ELSE TokenSum(s, i - 1)
         + (IF s[i] \in UnitLetters THEN RunValue(s, i - 1) * Multiplier(s[i]) ELSE 0)

ParseReturned == fn = "parse_duration_to_seconds" /\ parsed # NotCalled

\* C1: for a duration string made only of whitespace-separated tokens, each a
\* non-negative integer immediately followed by one unit letter of d, h, m, s,
\* parse_duration_to_seconds returns the sum of integer x multiplier over the
\* tokens; "1h 30m" gives 5400, "45m" gives 2700 and "2d 3h" gives 183600.
C1_ParseSumsTokens ==
    ParseReturned =>
        /\ (duration_str.t = "str" /\ WellFormedDuration(duration_str.s)) =>
              parsed = Returned(TokenSum(duration_str.s, Len(duration_str.s)))
        /\ duration_str = PyStr(<<"1", "h", " ", "3", "0", "m">>) => parsed = Returned(5400)
        /\ duration_str = PyStr(<<"4", "5", "m">>) => parsed = Returned(2700)
        /\ duration_str = PyStr(<<"2", "d", " ", "3", "h">>) => parsed = Returned(183600)

C1_Witness ==
    /\ ParseReturned
    /\ duration_str = PyStr(<<"2", "d", " ", "3", "h">>)
    /\ WellFormedDuration(duration_str.s)
    /\ parsed = Returned(183600)

\* A token that is one or more digits followed by one unit letter.
WellFormedToken(tok) ==
    /\ Len(tok) >= 2
    /\ tok[Len(tok)] \in UnitLetters
    /\ \A i \in 1..(Len(tok) - 1) : tok[i] \in DigitSet

RECURSIVE WellFormedSum(_, _)
WellFormedSum(toks, i) ==
    IF i < 1 THEN 0
    ELSE WellFormedSum(toks, i - 1)
         + (IF WellFormedToken(toks[i])
            THEN RunValue(toks[i], Len(toks[i]) - 1) * Multiplier(toks[i][Len(toks[i])])
            ELSE 0)

\* C2: when a duration string mixes well-formed tokens with an unrecognized
\* token (here: one without a sign character), parse_duration_to_seconds skips
\* only the unrecognized token and returns the sum of the well-formed tokens.
C2_SkipsOnlyUnrecognized ==
    (ParseReturned /\ duration_str.t = "str" /\ ~Contains(duration_str.s, "-")
                   /\ ~Contains(duration_str.s, "+")) =>
        LET toks == split(duration_str.s) IN
        parsed = Returned(WellFormedSum(toks, Len(toks)))

\* C3: whatever the input, negative-looking tokens such as "-5m" included,
\* the value parse_duration_to_seconds returns is an integer >= 0.
C3_ParseNonNegative ==
    ParseReturned => parsed.exc = "none" /\ parsed.val >= 0

\* C4: parse_duration_to_seconds never raises, and it returns 0 for an empty
\* string, for a null/NaN value that is not a string, and for a string that
\* holds no number at all, such as "garbage".
C4_ParseNeverRaises ==
    ParseReturned =>
        /\ parsed.exc = "none"
        /\ ( \/ duration_str.t # "str"
             \/ \A i \in DOMAIN duration_str.s : duration_str.s[i] \notin DigitSet )
           => parsed = Returned(0)

C4_Witness ==
    /\ ParseReturned
    /\ duration_str \in {PyNaN, PyStr(<<"g", "a", "r", "b", "a", "g", "e">>)}
    /\ parsed = Returned(0)

\* The fields a formatted text shows: for each whitespace-separated token its
\* leading number and the unit word after it.
RECURSIVE LeadingDigits(_)
LeadingDigits(tok) ==
    IF tok # <<>> /\ Head(tok) \in DigitSet THEN 1 + LeadingDigits(Tail(tok)) ELSE 0

ShownField(tok) ==
    LET k == LeadingDigits(tok) IN
    [num |-> RunValue(tok, k), unit |-> SubSeq(tok, k + 1, Len(tok))]

Shown(text) == LET toks == split(text) IN [i \in DOMAIN toks |-> ShownField(toks[i])]

FormatReturned == fn = "format_seconds_to_duration" /\ formatted # NotCalled

\* C5: for a non-negative integer number of seconds x the formatted text
\* shows only x seconds when x < 60, only floor(x/60) minutes when
\* 60 <= x < 3600, floor(x/3600) hours and floor((x mod 3600)/60) minutes
\* when 3600 <= x < 86400, floor(x/86400) days and floor((x mod 86400)/3600)
\* hours otherwise: values are truncated, never rounded up.
C5_FormatTruncates ==
    (FormatReturned /\ seconds.d = 1) =>
        LET x == seconds.n
            shown == Shown(formatted.val)
        IN  /\ formatted.exc = "none"
            /\ x < 60 => shown = <<[num |-> x, unit |-> Cho]>>
            /\ (60 <= x /\ x < 3600) => shown = <<[num |-> x \div 60, unit |-> Bun]>>
            /\ (3600 <= x /\ x < 86400) =>
                  shown = << [num |-> x \div 3600, unit |-> Sigan],
                             [num |-> (x % 3600) \div 60, unit |-> Bun] >>
            /\ 86400 <= x =>
                  shown = << [num |-> x \div 86400, unit |-> Il],
                             [num |-> (x % 86400) \div 3600, unit |-> Sigan] >>
            /\ x = 5400 => formatted.val = <<"1">> \o Sigan \o <<" ", "3", "0">> \o Bun
            /\ x = 3599 => formatted.val = <<"5", "9">> \o Bun

C5_Witness ==
    /\ FormatReturned
    /\ seconds = Num(86400 + 23 * 3600 + 59 * 60 + 59)
    /\ formatted.val = <<"1">> \o Il \o <<" ", "2", "3">> \o Sigan

\* The size in seconds of the smaller unit the formatted text displays.
SmallerUnit(x) ==
    IF num_lt(x, 60) THEN 1
    ELSE IF num_lt(x, 86400) THEN 60
    ELSE 3600

\* C6: for every non-negative x,
\* parse_duration_to_seconds(format_seconds_to_duration(x)) falls within the
\* same two-unit bucket as x: it is at most x and differs from x by less than
\* one unit of the smaller displayed unit.
C6_RoundTripSameBucket ==
    (FormatReturned /\ parsed # NotCalled) =>
        /\ parsed.exc = "none"
        /\ parsed.val * seconds.d <= seconds.n
        /\ seconds.n < (parsed.val + SmallerUnit(seconds)) * seconds.d

\* The entries of a series that are present and parse to more than 0 seconds.
Qualifying(series) ==
    { i \in DOMAIN series :
        /\ series[i].t = "str" /\ series[i].s # <<>>
        /\ parse_duration_to_seconds(series[i]).val > 0 }

RECURSIVE SumOver(_, _)
SumOver(series, S) ==
    IF S = {} THEN 0
    ELSE LET i == CHOOSE k \in S : TRUE IN
         parse_duration_to_seconds(series[i]).val + SumOver(series, S \ {i})

AverageReturned == fn = "calculate_average_duration" /\ average # NotCalled

\* C7: calculate_average_duration keeps only the entries that are present and
\* parse to a strictly positive number of seconds, divides their sum by their
\* count and returns the formatted quotient; it returns "N/A" when no entry
\* qualifies; ["1h", "30m", "", "2h 15m"] gives one hour fifteen minutes.
C7_AverageOverQualifying ==
    AverageReturned =>
        LET Q == Qualifying(duration_series) IN
        /\ average.exc = "none"
        /\ Q = {} => average.val = NA
        /\ Q # {} =>
              average.val = format_seconds_to_duration(
                                [n |-> SumOver(duration_series, Q), d |-> Cardinality(Q)])
        /\ duration_series = ExampleSeries =>
              average.val = <<"1">> \o Sigan \o <<" ", "1", "5">> \o Bun

C7_Witness ==
    /\ AverageReturned
    /\ duration_series = ExampleSeries
    /\ Cardinality(Qualifying(duration_series)) = 3
    /\ average.val = <<"1">> \o Sigan \o <<" ", "1", "5">> \o Bun

\* ------------------------------------------- properties of the dashboard
ReportShown == report.exc = "none" /\ report.val.kind = "report"
PromptSent == prompt # NoPrompt
MetricsShown == tab2.kind = "metrics"

\* C8: the severity bands the report computes are pairwise disjoint and their
\* counts add up to the number of rows, so that the printed shares cover the
\* whole: no row with an absent or unrecognized severity is left out of them.
C8_BandsPartitionRows ==
    ReportShown =>
        /\ CriticalKeywords \cap WarningKeywords = {}
        /\ CriticalKeywords \cap InfoKeywords = {}
        /\ WarningKeywords \cap InfoKeywords = {}
        /\ report.val.critical_events + report.val.warning_events
               + report.val.info_events = report.val.total_events

\* Two texts that differ in the case of their letters only.
SameIgnoringCase(a, b) ==
    /\ Len(a) = Len(b)
    /\ \A i \in 1..Len(a) :
          \/ a[i] = b[i]
          \/ \E k \in 1..26 : {a[i], b[i]} = {UpperLetters[k], LowerLetters[k]}

CriticalWords ==
    { <<"d", "i", "s", "a", "s", "t", "e", "r">>,
      <<"h", "i", "g", "h">>,
      <<"f", "a", "t", "a", "l">>,
      <<"c", "r", "i", "t", "i", "c", "a", "l">>,
      <<"e", "r", "r", "o", "r">> }
WarningWords ==
    { <<"a", "v", "e", "r", "a", "g", "e">>,
      <<"w", "a", "r", "n", "i", "n", "g">>,
      <<"m", "a", "j", "o", "r">>,
      <<"m", "e", "d", "i", "u", "m">> }

\* The rows of a frame whose severity is, letter case aside, one of the words.
RowsInBand(frame, words) ==
    IF severity_col(frame) = "None" THEN {}
    ELSE { i \in DOMAIN frame.rows :
             /\ frame.rows[i][severity_col(frame)].t = "str"
             /\ \E w \in words :
                   SameIgnoringCase(frame.rows[i][severity_col(frame)].s, w) }

\* C9: a row counts as critical exactly when its severity, lower-cased, is
\* one of disaster, high, fatal, critical, error; as warning exactly when it
\* is one of average, warning, major, medium; as informational when it is one
\* of the other recognized labels, in the report and in the prompt of the
\* analysis alike. The rows Disaster, Warning, Warning, Information give
\* critical 1, warning 2, informational 1, none left over, and the shares
\* 25.0, 50.0 and 25.0.
C9_BandsByLowerCasedSeverity ==
    /\ ReportShown =>
          /\ report.val.critical_events = Cardinality(RowsInBand(df, CriticalWords))
          /\ report.val.warning_events = Cardinality(RowsInBand(df, WarningWords))
          /\ report.val.info_events = Cardinality(RowsInBand(df, InfoKeywords))
          /\ RowsInBand(df, InfoKeywords)
                 \cap (RowsInBand(df, CriticalWords) \cup RowsInBand(df, WarningWords)) = {}
    /\ PromptSent =>
          /\ prompt.critical_events = Cardinality(RowsInBand(df, CriticalWords))
          /\ prompt.warning_events = Cardinality(RowsInBand(df, WarningWords))
    /\ ReportShown /\ df = ExampleFrame =>
          /\ report.val.critical_events = 1
          /\ report.val.warning_events = 2
          /\ report.val.info_events = 1
          /\ report.val.total_events - 1 - 2 - 1 = 0
          /\ report.val.critical_pct = <<"2", "5", ".", "0">>
          /\ report.val.warning_pct = <<"5", "0", ".", "0">>
          /\ report.val.info_pct = <<"2", "5", ".", "0">>

C9_Witness ==
    /\ ReportShown
    /\ df = ExampleFrame
    /\ report.val.total_events = 4
    /\ report.val.critical_events = 1
    /\ report.val.warning_events = 2

\* The same text in capital letters.
upper_char(c) ==
    IF \E i \in 1..26 : LowerLetters[i] = c
    THEN UpperLetters[CHOOSE i \in 1..26 : LowerLetters[i] = c]
    ELSE c
upper(chars) == [i \in DOMAIN chars |-> upper_char(chars[i])]

\* A frame with the letter case of its severity and status values changed:
\* all capitals when capitals is TRUE, all small letters otherwise.
recased_cell(cell, capitals) ==
    IF cell.t # "str" THEN cell
    ELSE IF capitals THEN PyStr(upper(cell.s)) ELSE PyStr(lower(cell.s))

recased(frame, capitals) ==
    DataFrame(frame.columns,
              [i \in DOMAIN frame.rows |->
                  [c \in DOMAIN frame.rows[i] |->
                      IF c = "Status" \/ c = severity_col(frame)
                      THEN recased_cell(frame.rows[i][c], capitals)
                      ELSE frame.rows[i][c]]])

\* C10: the counts that look up a severity or a status do not depend on the
\* letter case of the values: the frame with only the case of its Severity
\* and Status values changed gives the same critical, warning and
\* informational counts, the same PROBLEM and OK counts, and the same
\* critical-events metric on the analysis tab.
C10_CountsIgnoreLetterCase ==
    \A capitals \in BOOLEAN :
        /\ ReportShown =>
              /\ report_of(recased(df, capitals)).exc = "none"
              /\ report_of(recased(df, capitals)).val.critical_events
                     = report.val.critical_events
              /\ report_of(recased(df, capitals)).val.warning_events
                     = report.val.warning_events
              /\ report_of(recased(df, capitals)).val.info_events
                     = report.val.info_events
              /\ report_of(recased(df, capitals)).val.problem_events
                     = report.val.problem_events
              /\ report_of(recased(df, capitals)).val.ok_events
                     = report.val.ok_events
        /\ MetricsShown /\ len(df) = tab2.total_events =>
              tab2_metrics(recased(df, capitals)).critical_count = tab2.critical_count

\* generate_report was called and read the stored frames into its local df.
ReportCalled ==
    /\ report # NotCalled
    /\ DOMAIN StoredData(session_state) # {}
    /\ report_source(session_state).exc = "none"

\* The analysis button was clicked in the tab shown.
AnalysisCalled == MetricsShown /\ entered # NoCall

\* C11: when the event set has zero rows no computation ends in a division
\* fault: the report called on stored frames without rows does not raise
\* ZeroDivisionError, and the analysis called on a frame without rows does
\* not end in the error text of one.
C11_ZeroRowsNoDivisionFault ==
    /\ ReportCalled /\ len(df) = 0 => report.exc # "ZeroDivisionError"
    /\ AnalysisCalled /\ len(df) = 0 =>
          session_state["ai_analysis_result"] # ErrorMessage("ZeroDivisionError")

\* The columns that are present hold values the statistics can read: every
\* Time cell is a time, some severity cell is a text, some row names a host.
ReadableTime(cell) == cell.t = "ts" \/ (cell.t = "str" /\ is_stamp(cell.s))
PresentColumnsUsable(frame) ==
    /\ "Time" \in frame.columns =>
          \A i \in DOMAIN frame.rows : ReadableTime(frame.rows[i]["Time"])
    /\ severity_col(frame) # "None" =>
          \E i \in DOMAIN frame.rows : frame.rows[i][severity_col(frame)].t = "str"
    /\ "Host" \in frame.columns =>
          \E i \in DOMAIN frame.rows : notna(frame.rows[i]["Host"])

\* C12: for stored frames with rows, from which any of the optional columns
\* Time, Host, Severity, Status, Duration, Description may be absent,
\* generate_report completes without raising, and every statistic that
\* depends on an absent column is zero, empty or "N/A".
C12_AbsentColumnsGiveDefaults ==
    ReportCalled /\ len(df) > 0 /\ PresentColumnsUsable(df) =>
        /\ report.exc = "none"
        /\ "Host" \notin df.columns =>
              report.val.unique_hosts = 0 /\ report.val.top_hosts = <<>>
        /\ "Time" \notin df.columns =>
              /\ report.val.time_range = NA /\ report.val.peak_hour = NA
              /\ report.val.total_days = 0 /\ report.val.hourly_dist = <<>>
        /\ severity_col(df) = "None" =>
              /\ report.val.critical_events = 0 /\ report.val.warning_events = 0
              /\ report.val.info_events = 0
        /\ "Status" \notin df.columns =>
              report.val.problem_events = 0 /\ report.val.ok_events = 0
        /\ "Duration" \notin df.columns =>
              report.val.avg_duration_str = NA /\ report.val.max_duration_str = NA
        /\ "Description" \notin df.columns => report.val.top_issues = <<>>

\* The number of distinct hosts of a frame, 0 without a Host column.
DistinctHosts(frame) ==
    IF "Host" \in frame.columns
    THEN Cardinality({ frame.rows[i]["Host"] :
                         i \in {j \in DOMAIN frame.rows : notna(frame.rows[j]["Host"])} })
    ELSE 0

\* The tenths a text with one decimal stands for.
Tenths(text) == digits_value(SelectSeq(text, LAMBDA c : c # "."), 0)

\* C13: the average number of events per host is the row count divided by
\* the number of distinct hosts when there are hosts, and a defined value,
\* no fault, when there are none: in the report, where it is printed to one
\* decimal, and in the host analysis of the prompt.
C13_AverageEventsPerHost ==
    /\ ReportCalled /\ len(df) > 0 /\ DistinctHosts(df) = 0 =>
          report.exc # "ZeroDivisionError"
    /\ ReportShown /\ DistinctHosts(df) > 0 =>
          LET tenths == Tenths(report.val.avg_per_host)
              gap == 20 * len(df) - 2 * DistinctHosts(df) * tenths
          IN  gap <= DistinctHosts(df) /\ 0 - gap <= DistinctHosts(df)
    /\ PromptSent /\ prompt.host_analysis.present =>
          LET avg == prompt.host_analysis.avg_events_per_host
          IN  IF DistinctHosts(df) > 0
              THEN avg.n * DistinctHosts(df) = len(df) * avg.d
              ELSE avg = Num(0)

\* The rows of a frame that have a time, the latest of their times, and the
\* rows of the 24 hours up to it and of the 24 hours before those.
TimedRows(frame) == {i \in DOMAIN frame.rows : frame.rows[i]["Time"].t = "ts"}
LatestHours(frame) ==
    CHOOSE h \in {hours(frame.rows[i]["Time"]) : i \in TimedRows(frame)} :
        \A i \in TimedRows(frame) : hours(frame.rows[i]["Time"]) <= h
RecentCount(frame) ==
    IF TimedRows(frame) = {} THEN 0
    ELSE Cardinality({i \in TimedRows(frame) :
                         hours(frame.rows[i]["Time"]) >= LatestHours(frame) - 24})
PriorCount(frame) ==
    IF TimedRows(frame) = {} THEN 0
    ELSE Cardinality({i \in TimedRows(frame) :
                         /\ hours(frame.rows[i]["Time"]) >= LatestHours(frame) - 48
                         /\ hours(frame.rows[i]["Time"]) < LatestHours(frame) - 24})

\* C14: the change percentage of the time analysis is exactly 0 whenever the
\* prior 24-hour window holds no event, whatever the recent count, and
\* (recent - prior) / prior * 100 otherwise, recent and prior being the
\* numbers of rows of the two windows.
C14_ChangeRateOfWindows ==
    PromptSent /\ prompt.time_analysis.present =>
        LET rate == prompt.time_analysis.change_rate
        IN  /\ prompt.time_analysis.recent_24h = RecentCount(df)
            /\ prompt.time_analysis.previous_24h = PriorCount(df)
            /\ IF PriorCount(df) = 0 THEN rate = Num(0)
               ELSE rate.n * PriorCount(df)
                       = (RecentCount(df) - PriorCount(df)) * 100 * rate.d

\* A prompt whose time analysis compares two recent events with one of the
\* window before: a change of 100 percent.
C14_Witness ==
    /\ PromptSent /\ prompt.time_analysis.present
    /\ RecentCount(df) = 2 /\ PriorCount(df) = 1
    /\ prompt.time_analysis.change_rate.n = 100 * prompt.time_analysis.change_rate.d

\* Some Time cell of the frame is a text that is no date.
UnreadableTime(frame) ==
    /\ "Time" \in frame.columns
    /\ \E i \in DOMAIN frame.rows :
          frame.rows[i]["Time"].t = "str" /\ ~is_stamp(frame.rows[i]["Time"].s)

\* C15: a row whose timestamp cannot be parsed counts as a row without a
\* time and the computation completes: generate_report over stored frames
\* with such a row returns a report, and the report counts all their rows.
C15_UnparseableTimeIsAbsent ==
    ReportCalled /\ UnreadableTime(df) =>
        report.exc = "none" /\ report.val.total_events = len(df)

\* C16: generate_report over stored event data of zero rows, however they
\* came to be stored, signals that there is nothing to report, as it does
\* without stored data, and works out no percentage.
C16_EmptyDataNothingToReport ==
    ReportCalled /\ len(df) = 0 => report = Returned(NoData)

\* generate_report ran twice in a row, on the same stored event data.
ReportRepeated == previous # NotCalled

\* An outcome of generate_report without the line of the generation time.
WithoutGenerationTime(outcome) ==
    IF outcome.exc = "none" /\ outcome.val.kind = "report"
    THEN Returned([k \in DOMAIN outcome.val \ {"generated_at"} |-> outcome.val[k]])
    ELSE outcome

C18_CallsLeaveStoredDataAlone ==
    entered # NoCall => StoredData(session_state) = entered

\* A report generated from a stored merged frame with a Duration column: the
\* function has added the column Duration_seconds to its local frame.
C18_Witness ==
    /\ entered # NoCall /\ ReportShown
    /\ "event_data" \in DOMAIN session_state
    /\ "Duration" \in session_state["event_data"].columns
    /\ "Duration_seconds" \notin session_state["event_data"].columns

\* Two frames hold the same events: the same columns and every row as often.
SameEvents(f, g) ==
    /\ f.columns = g.columns
    /\ len(f) = len(g)
    /\ \A i \in DOMAIN f.rows :
          Cardinality({j \in DOMAIN f.rows : f.rows[j] = f.rows[i]})
              = Cardinality({j \in DOMAIN g.rows : g.rows[j] = f.rows[i]})

\* C19: the analysis tab never displays a stored analysis result that was
\* computed from an earlier event set: whenever it shows a result, the frame
\* it now presents, after the selection of the files and the date filter,
\* holds the events the result was computed from.
C19_ResultOfTheEventsShown ==
    MetricsShown /\ tab2.result # NoResult => SameEvents(analysed, df)

\* The hourly chart is drawn: the frame the tab presents has a Time column.
ChartShown == MetricsShown /\ "Time" \in df.columns

\* The rows of a frame whose time is of hour h of the day.
RowsOfHour(frame, h) ==
    {i \in DOMAIN frame.rows :
        frame.rows[i]["Time"].t = "ts" /\ hours(frame.rows[i]["Time"]) % 24 = h}

RECURSIVE BucketSum(_, _)
BucketSum(buckets, hs) ==
    IF hs = {} THEN 0
    ELSE LET h == CHOOSE x \in hs : TRUE
         IN  buckets[h] + BucketSum(buckets, hs \ {h})

\* C20: the per-hour distribution of the chart has exactly the 24 buckets of
\* the hours 0 to 23, each holding the number of rows of that hour, 0 where
\* there is none, and the buckets add up to the number of rows of the frame
\* the tab presents.
C20_HourlyBuckets ==
    ChartShown =>
        /\ DOMAIN tab2.all_hours = 0..23
        /\ \A h \in 0..23 : tab2.all_hours[h] = Cardinality(RowsOfHour(df, h))
        /\ BucketSum(tab2.all_hours, DOMAIN tab2.all_hours) = len(df)

\* A chart of two events of different hours: two buckets of 1, the others 0.
C20_Witness ==
    /\ ChartShown /\ len(df) = 2
    /\ Cardinality({h \in DOMAIN tab2.all_hours : tab2.all_hours[h] = 1}) = 2
    /\ Cardinality({h \in DOMAIN tab2.all_hours : tab2.all_hours[h] = 0}) = 22

\* The descriptions of a frame that are no NaN.
Descriptions(frame) ==
    { frame.rows[i]["Description"] :
        i \in {j \in DOMAIN frame.rows : notna(frame.rows[j]["Description"])} }

Ellipsis == <<".", ".", ".">>

\* The line printed for the description v of the frame: unchanged up to the
\* width, cut to the width with an ellipsis behind it beyond, with its count
\* and, to the nearest tenth, its share of all rows in percent.
IssueLineOf(line, v, frame) ==
    /\ line.count = count_of(column(frame, "Description"), v)
    /\ Len(v.s) <= IssueWidth => line.value = v.s
    /\ Len(v.s) > IssueWidth =>
          line.value = SubSeq(v.s, 1, IssueWidth) \o Ellipsis
    /\ LET gap == 2000 * line.count - 2 * len(frame) * Tenths(line.pct)
       IN  gap <= len(frame) /\ 0 - gap <= len(frame)

\* C21: in the top issues of the report a description of at most 100
\* characters is printed unchanged, without an ellipsis, and a longer one as
\* its first 100 characters followed by "..."; the share of each entry is its
\* count divided by the number of all rows.
C21_IssueTextAndShare ==
    ReportShown /\ "Description" \in df.columns =>
        \A k \in DOMAIN report.val.top_issues :
            \E v \in Descriptions(df) : IssueLineOf(report.val.top_issues[k], v, df)

\* A report with a description cut to the width and one of the width itself.
C21_Witness ==
    /\ ReportShown /\ "Description" \in df.columns
    /\ \E k \in DOMAIN report.val.top_issues :
          /\ Len(report.val.top_issues[k].value) = IssueWidth + 3
          /\ report.val.top_issues[k].count = 2
    /\ \E k \in DOMAIN report.val.top_issues :
          Len(report.val.top_issues[k].value) = IssueWidth

\* The hosts of a frame, NaN apart, and the row at which each comes first.
Hosts(frame) ==
    { frame.rows[i]["Host"] : i \in {j \in DOMAIN frame.rows : notna(frame.rows[j]["Host"])} }
HostCount(frame, host) == count_of(column(frame, "Host"), host)
FirstRow(frame, host) ==
    CHOOSE i \in DOMAIN frame.rows :
        /\ frame.rows[i]["Host"] = host
        /\ \A j \in 1..(i - 1) : frame.rows[j]["Host"] # host

Listed(lines) == { PyStr(lines[k].value) : k \in DOMAIN lines }

\* The host block without the order of equal counts: at most 10 distinct
\* hosts of the frame, each with its count, by falling count, no host left
\* out having a larger count than a host listed, none left out while fewer
\* than 10 are listed.
TopHostsBlock(lines, frame) ==
    /\ Len(lines) <= TopHosts
    /\ \A k \in DOMAIN lines :
          /\ PyStr(lines[k].value) \in Hosts(frame)
          /\ lines[k].count = HostCount(frame, PyStr(lines[k].value))
    /\ \A k, m \in DOMAIN lines : k < m =>
          /\ lines[k].count >= lines[m].count
          /\ lines[k].value # lines[m].value
    /\ \A host \in Hosts(frame) \ Listed(lines) :
          /\ Len(lines) = TopHosts
          /\ \A k \in DOMAIN lines : HostCount(frame, host) <= lines[k].count

\* Hosts of equal counts stand in the order in which the rows first name
\* them, among the listed ones and against those left out.
TiesFirstEncountered(lines, frame) ==
    /\ \A k, m \in DOMAIN lines :
          k < m /\ lines[k].count = lines[m].count =>
              FirstRow(frame, PyStr(lines[k].value)) < FirstRow(frame, PyStr(lines[m].value))
    /\ \A host \in Hosts(frame) \ Listed(lines) :
          \A k \in DOMAIN lines :
              lines[k].count = HostCount(frame, host) =>
                  FirstRow(frame, PyStr(lines[k].value)) < FirstRow(frame, host)

\* The host block of every report, the order of equal counts left open.
HostBlockByCount ==
    ReportShown /\ "Host" \in df.columns => TopHostsBlock(report.val.top_hosts, df)

ManyHostsReported ==
    /\ ReportShown /\ "Host" \in df.columns
    /\ Cardinality(Hosts(df)) > SmallSort
    /\ Len(report.val.top_hosts) = TopHosts

\* The rows of a frame whose duration is present and parses to a positive
\* number of seconds, and the seconds of such a row.
ParsedSeconds(frame, i) == parse_duration_to_seconds(frame.rows[i]["Duration"]).val
PositiveRows(frame) ==
    { i \in DOMAIN frame.rows :
        notna(frame.rows[i]["Duration"]) /\ ParsedSeconds(frame, i) > 0 }

RECURSIVE TotalSeconds(_, _)
TotalSeconds(frame, rows) ==
    IF rows = {} THEN 0
    ELSE LET i == CHOOSE j \in rows : TRUE
         IN  ParsedSeconds(frame, i) + TotalSeconds(frame, rows \ {i})

LongestSeconds(frame, rows) ==
    CHOOSE x \in {ParsedSeconds(frame, i) : i \in rows} :
        \A i \in rows : ParsedSeconds(frame, i) <= x

\* C23: the duration statistics of the report are the mean and the maximum
\* of the parsed durations over exactly the rows whose duration is present
\* and parses to a positive number of seconds; both are "N/A" without a
\* Duration column or without such a row, so that rows of empty, unparseable
\* or zero durations do not lower the mean.
C23_DurationStatistics ==
    ReportShown =>
        IF "Duration" \notin df.columns \/ PositiveRows(df) = {}
        THEN report.val.avg_duration_str = NA /\ report.val.max_duration_str = NA
        ELSE /\ report.val.avg_duration_str =
                    format_seconds_to_duration(
                        [n |-> TotalSeconds(df, PositiveRows(df)),
                         d |-> Cardinality(PositiveRows(df))])
             /\ report.val.max_duration_str =
                    format_seconds_to_duration(Num(LongestSeconds(df, PositiveRows(df))))

\* A report on rows of positive durations among rows of a zero, a negative
\* and an empty one.
C23_Witness ==
    /\ ReportShown /\ "Duration" \in df.columns
    /\ Cardinality(PositiveRows(df)) = 2
    /\ \E i \in DOMAIN df.rows : notna(df.rows[i]["Duration"]) /\ ParsedSeconds(df, i) = 0
    /\ \E i \in DOMAIN df.rows : ParsedSeconds(df, i) < 0
    /\ \E i \in DOMAIN df.rows : ~notna(df.rows[i]["Duration"])
    /\ report.val.avg_duration_str # report.val.max_duration_str

\* A report on a Duration column without a row of a positive duration.
NoDurationReported ==
    /\ ReportShown /\ "Duration" \in df.columns /\ len(df) > 0
    /\ PositiveRows(df) = {}

\* The severity column of the frame can be lower-cased by the report: there
\* is none, or it holds text.
SeverityReadable(frame) ==
    severity_col(frame) = "None" \/ has_str_accessor(frame, severity_col(frame))

\* The two paths count a different number of critical or of warning rows in
\* the frame.
CountsDiffer(frame) ==
    \/ analysis_count(frame, AnalysisCriticalKeywords) # report_count(frame, CriticalKeywords)
    \/ analysis_count(frame, AnalysisWarningKeywords) # report_count(frame, WarningKeywords)

\* C24 as stated: the keyword sets of perform_simple_ai_analysis differ from
\* those of generate_report, and there is an event set for which the two
\* paths report different critical or warning counts.
C24_KeywordSetsDiffer ==
    /\ \/ AnalysisCriticalKeywords # CriticalKeywords
       \/ AnalysisWarningKeywords # WarningKeywords
    /\ \E f \in Frames : SeverityReadable(f) /\ CountsDiffer(f)

\* C24 as the code has it: the keyword sets of the two paths are the same,
\* and the critical and warning counts of a report are those the analysis
\* computes for the same frame, the counts of a prompt those the report
\* computes for it.
C24_SameKeywordSets ==
    /\ AnalysisCriticalKeywords = CriticalKeywords
    /\ AnalysisWarningKeywords = WarningKeywords
    /\ ReportShown =>
          /\ report.val.critical_events = analysis_count(df, AnalysisCriticalKeywords)
          /\ report.val.warning_events = analysis_count(df, AnalysisWarningKeywords)
    /\ PromptSent /\ SeverityReadable(df) =>
          /\ prompt.critical_events = report_count(df, CriticalKeywords)
          /\ prompt.warning_events = report_count(df, WarningKeywords)

\* A prompt with a critical and a warning row, the labels capitalised in
\* the file.
C24_Witness ==
    /\ PromptSent /\ SeverityReadable(df)
    /\ prompt.critical_events >= 1 /\ prompt.warning_events >= 1
    /\ report_count_exact(df, CriticalKeywords) < prompt.critical_events

\* The dataset the analysis tab selects through data_mode, as one frame:
\* the stored files together in mode 'multiple', the stored merged frame in
\* mode 'single'.
SelectedByMode(ss) ==
    IF ss["data_mode"] = "multiple" THEN concat(frames(ss["event_files"]))
    ELSE Returned(ss["event_data"])

\* generate_report was called in a session with a data mode whose dataset
\* can be read as one frame.
ReportOfPrepared ==
    /\ report # NotCalled
    /\ "data_mode" \in DOMAIN session_state
    /\ SelectedByMode(session_state).exc = "none"

\* C25: generate_report reads the dataset that the most recent prepare
\* action stored, the one the analysis tab selects through data_mode: a
\* merged frame left in the session by an earlier prepare action is not used
\* once files have been stored individually.
C25_ReportReadsLatestPrepared ==
    ReportOfPrepared =>
        SameEvents(converted(df), converted(SelectedByMode(session_state).val))

\* The report read a merged frame although files were stored individually
\* after it, the files holding other events.
StaleMergedFrameReported ==
    /\ ReportOfPrepared
    /\ session_state["data_mode"] = "multiple"
    /\ "event_data" \in DOMAIN session_state
    /\ df = session_state["event_data"]
    /\ DistinctHosts(df) # DistinctHosts(SelectedByMode(session_state).val)

\* C26: in every session state data_mode, when set, is 'single' or
\* 'multiple'; 'single' comes with a stored event_data and 'multiple' with
\* stored event_files, so that the analysis tab finds data exactly when
\* data_mode or event_data is present.
C26_DataModeMatchesStoredData ==
    /\ "data_mode" \in DOMAIN session_state =>
          /\ session_state["data_mode"] \in {"single", "multiple"}
          /\ session_state["data_mode"] = "single" => "event_data" \in DOMAIN session_state
          /\ session_state["data_mode"] = "multiple" => "event_files" \in DOMAIN session_state
    /\ has_data(session_state) <=>
          ("data_mode" \in DOMAIN session_state \/ "event_data" \in DOMAIN session_state)

\* Both prepare actions have stored their data, the merge last, and the
\* analysis tab is shown with data.
C26_Witness ==
    /\ {"event_data", "event_files", "data_mode"} \subseteq DOMAIN session_state
    /\ session_state["data_mode"] = "single"
    /\ has_data(session_state)
    /\ MetricsShown

\* The datasets stored in the session are not empty: event_files holds at
\* least one file, event_data at least one row.
StoredDataNotEmpty(ss) ==
    /\ "event_files" \in DOMAIN ss => ss["event_files"] # <<>>
    /\ "event_data" \in DOMAIN ss => len(ss["event_data"]) > 0

\* C27: every dataset a prepare action stores is non-empty: event_files is
\* never stored without a file and event_data never without a row, so that
\* the analysis tab, whenever it finds data, has at least one file to select.
C27_StoredDataNotEmpty ==
    /\ tab1.kind \in {"kept", "merged"} => StoredDataNotEmpty(session_state)
    /\ has_data(session_state) /\ session_state["data_mode"] = "multiple" =>
          session_state["event_files"] # <<>>

\* The analysis tab found data, had no file to select and ended in KeyError.
NoFileToSelect ==
    /\ has_data(session_state)
    /\ session_state["data_mode"] = "multiple"
    /\ session_state["event_files"] = <<>>
    /\ tab2 = [kind |-> "exception", error |-> "KeyError"]

\* What the merge branch stores has rows.
MergedDataNotEmpty ==
    tab1.kind = "merged" => len(session_state["event_data"]) > 0

\* What the prepare actions store: event_data, event_files and data_mode.
Prepared(ss) == [k \in DOMAIN ss \cap {"event_data", "event_files", "data_mode"} |-> ss[k]]

NoRowsUploaded == \A i \in DOMAIN file_data : len(file_data[i].data) = 0

\* C28: when the merge is chosen and no uploaded file has a row, the prepare
\* action leaves event_data, event_files and data_mode as they were before.
C28_MergeOfNoRowsStoresNothing ==
    [][ tab1'.kind \in {"merged", "nothing to merge", "error"} /\ NoRowsUploaded
            => Prepared(session_state') = Prepared(session_state) ]_vars

\* The merge was chosen for a file without rows in a session that held data
\* of an earlier prepare action.
C28_Witness ==
    /\ tab1.kind = "nothing to merge"
    /\ file_data # <<>> /\ NoRowsUploaded
    /\ "event_data" \in DOMAIN session_state
    /\ len(session_state["event_data"]) > 0

\* The rows of the recent window [latest - 24h, latest] and of the prior
\* window [latest - 48h, latest - 24h) of a frame with times.
RecentRows(frame) ==
    { i \in TimedRows(frame) :
        /\ LatestHours(frame) - 24 <= hours(frame.rows[i]["Time"])
        /\ hours(frame.rows[i]["Time"]) <= LatestHours(frame) }
PriorRows(frame) ==
    { i \in TimedRows(frame) :
        /\ LatestHours(frame) - 48 <= hours(frame.rows[i]["Time"])
        /\ hours(frame.rows[i]["Time"]) < LatestHours(frame) - 24 }

\* C29: the recent window of the comparison is the rows of
\* [latest - 24h, latest] and the prior window those of
\* [latest - 48h, latest - 24h), latest being the greatest time observed; the
\* windows are disjoint, the recent one holds at least one row, and the
\* trend is called an increase only when the recent count is greater than
\* the prior count: equal counts are called a decrease.
C29_RecentAndPriorWindows ==
    PromptSent /\ prompt.time_analysis.present /\ TimedRows(df) # {} =>
        /\ prompt.time_analysis.recent_24h = Cardinality(RecentRows(df))
        /\ prompt.time_analysis.previous_24h = Cardinality(PriorRows(df))
        /\ RecentRows(df) \cap PriorRows(df) = {}
        /\ prompt.time_analysis.recent_24h >= 1
        /\ prompt.time_analysis.trend \in {"increase", "decrease"}
        /\ prompt.time_analysis.trend = "increase" <=>
              Cardinality(RecentRows(df)) > Cardinality(PriorRows(df))

\* A comparison of two recent rows with two prior rows, a row on the lower
\* edge of each window: equal counts, called a decrease.
C29_Witness ==
    /\ PromptSent /\ prompt.time_analysis.present
    /\ Cardinality(RecentRows(df)) = 2 /\ Cardinality(PriorRows(df)) = 2
    /\ \E i \in RecentRows(df) : hours(df.rows[i]["Time"]) = LatestHours(df) - 24
    /\ \E i \in PriorRows(df) : hours(df.rows[i]["Time"]) = LatestHours(df) - 48
    /\ prompt.time_analysis.trend = "decrease"

\* The result the click on the analysis button stored.
AnalysisResult == session_state["ai_analysis_result"]
Texts == {"unavailable", "error", "response"}

\* The call ends in a text, the 'unavailable' one and no prompt without a
\* configured client; with one, a frame without rows and a failing request
\* end in the error text. The same for the function applied to the frame of
\* each uploaded file, timestamps that cannot be parsed among them.
ReturnsText ==
    /\ AnalysisCalled =>
          /\ AnalysisResult.kind \in Texts
          /\ OPENAI_VERSION = "None" => AnalysisResult = Unavailable /\ ~PromptSent
          /\ OPENAI_VERSION # "None" =>
                /\ AnalysisResult.kind \in {"error", "response"}
                /\ len(df) = 0 => AnalysisResult.kind = "error" /\ ~PromptSent
                /\ len(df) > 0 => PromptSent
                /\ AnalysisResult.kind = "error" /\ PromptSent =>
                      AnalysisResult.error = "APIError"
    /\ \A i \in DOMAIN file_data :
          /\ perform_simple_ai_analysis(file_data[i].data, OPENAI_VERSION, FALSE).kind
                 \in {"unavailable", "error"}
          /\ perform_simple_ai_analysis(file_data[i].data, OPENAI_VERSION, TRUE).kind \in Texts
          /\ OPENAI_VERSION = "None" =>
                perform_simple_ai_analysis(file_data[i].data, OPENAI_VERSION, TRUE) = Unavailable
          /\ OPENAI_VERSION # "None" /\ UnreadableTime(file_data[i].data) =>
                perform_simple_ai_analysis(file_data[i].data, OPENAI_VERSION, TRUE).kind = "error"

\* C30 as stated: perform_simple_ai_analysis ends in a text, the
\* 'unavailable' one without a configured client, and every failure ends in
\* the error text, a missing Description column among the failures.
C30_MissingDescriptionIsAnError ==
    /\ ReturnsText
    /\ AnalysisCalled /\ OPENAI_VERSION # "None" /\ "Description" \notin df.columns =>
          AnalysisResult.kind = "error"

\* C30 as the code has it: perform_simple_ai_analysis propagates no
\* exception and ends in a text: the 'unavailable' one, without a call of the
\* model, when no client version is configured, the error text for a frame
\* without rows, for timestamps that cannot be parsed and for a failing
\* request. A missing Description column is no failure: the call of the
\* model goes ahead without the top issues.
C30_AnalysisReturnsText ==
    /\ ReturnsText
    /\ AnalysisCalled /\ OPENAI_VERSION # "None" /\ len(df) > 0
          /\ "Description" \notin df.columns /\ AnalysisResult.kind = "error" =>
             PromptSent /\ AnalysisResult.error = "APIError"

\* An analysis of a frame without a Description column that ended in the
\* response of the model.
C30_Witness ==
    /\ AnalysisCalled /\ OPENAI_VERSION # "None"
    /\ "Description" \notin df.columns
    /\ AnalysisResult.kind = "response"

\* An analysis that ended in the error text of a frame without rows.
ErrorTextReturned ==
    /\ AnalysisCalled /\ OPENAI_VERSION # "None" /\ len(df) = 0
    /\ AnalysisResult = ErrorMessage("ZeroDivisionError")

====
